---- MODULE Spec2Model ----
(***************************************************************************)
(* A model of telegram-me: the Telegram client facade (body, more, post,   *)
(* preview), the post parser's assembly of a page into posts, and the feed *)
(* aggregation engine (concurrent channel fetch, comment counts, scoring,  *)
(* sort and deduplication).                                                *)
(*                                                                         *)
(* HTML is modelled by what the parsers read from it: a page is a channel  *)
(* header, a list of message nodes and the pagination offsets; a message   *)
(* node carries what each sub-parser of Post finds in it.  Strings that    *)
(* the program inspects character by character (channel names, counters)  *)
(* are sequences of one-character strings.                                 *)
(***************************************************************************)
EXTENDS Integers, Sequences, FiniteSets, TLC

VARIABLES
    last_call,      \* facade: the operation called last and its arguments
    last_response,  \* facade: what Request returned to that call
    last_result,    \* facade: what the Telegram method returned
    feed_pc,        \* feed: "idle", "fetching", "processing" or "done"
    usernames,      \* feed: the channels of the request, as listed
    served,         \* feed: the page t.me serves for each channel meanwhile
    fetch_tasks,    \* feed: the keys of the tasks dict, in insertion order
    fetch_results,  \* feed: the outcome of each body fetch, once it has one
    channel_cache,  \* feed: PostDataPreparer._channel_cache
    comment_cache,  \* feed: PostDataPreparer._comment_cache
    channel_tasks,  \* feed: the _process_channel_posts_ultra_fast coroutines
    semaphore,      \* feed: the holders of the semaphore of the batch
    all_posts,      \* feed: what prepare_multiple_channels returned
    feed_result,    \* feed: the "result" list of the response
    now,            \* the event loop's clock, in seconds
    preview_pc,     \* preview: "idle", "running" or "done"
    preview_call,   \* preview: the operation called and its channels
    redis_client,   \* preview: Telegram._redis_client, "none" or "ready"
    redis_store,    \* preview: the entries of the cache, by key
    preview_tasks,  \* preview: the preview() coroutines of the call
    preview_result, \* preview: what the call returned or raised
    last_status,    \* the HTTP status the route handler of the facade call answers
    preview_status, \* the HTTP status the preview route handler answers
    pure_call       \* the call of a function without state: its input and result

facadeVars == <<last_call, last_response, last_result, last_status>>
feedVars == <<feed_pc, usernames, served, fetch_tasks, fetch_results, channel_cache,
              comment_cache, channel_tasks, semaphore, all_posts, feed_result, now>>
previewVars == <<preview_pc, preview_call, redis_client, redis_store, preview_tasks,
                 preview_result, preview_status>>
pureVars == <<pure_call>>
vars == <<facadeVars, feedVars, previewVars, pureVars>>

(***************************************************************************)
(* Bounds of the model.                                                    *)
(***************************************************************************)
MaxPostId == 3      \* message ids of the facade's pages are 1..MaxPostId
MaxPosition == 4    \* positions passed to the facade are 0..MaxPosition
MaxChannels == 2    \* a feed request lists 1..MaxChannels channels
MaxCommentCount == 1    \* a comment page shows 0..MaxCommentCount comments
MaxPreviews == 2    \* a previews call lists 1..MaxPreviews channels

(***************************************************************************)
(* Sequence helpers.                                                       *)
(***************************************************************************)
Range(s) == {s[i] : i \in 1..Len(s)}

RECURSIVE SeqFilterIdx(_, _, _)
\* the elements s[i..] whose index is in keep, in order
SeqFilterIdx(s, keep, i) ==
    IF i > Len(s) THEN <<>>
    ELSE IF i \in keep THEN <<s[i]>> \o SeqFilterIdx(s, keep, i + 1)
    ELSE SeqFilterIdx(s, keep, i + 1)

(***************************************************************************)
(* Channel names.                                                          *)
(***************************************************************************)
Letters == {"a", "b", "c", "d", "w", "x", "y", "z", "A", "B"}
Digits == {"0", "1", "2", "3", "4", "5", "6", "7", "8", "9"}

NameAbcd == <<"a", "b", "c", "d">>
NameAbcdUpper == <<"A", "b", "c", "d">>     \* the same channel, spelled differently
NameWxyz == <<"w", "x", "y", "z">>
NameShort == <<"a", "b">>                   \* too short for Request.valid_channel
NameBang == <<"a", "b", "!", "d">>          \* a character outside the class

NameThree == <<"a", "b", "c">>              \* three characters
NameDigit == <<"1", "a", "b", "c">>         \* starts with a digit
NameDash == <<"a", "b", "-", "d">>          \* holds a '-'

ValidNames == {NameAbcd, NameAbcdUpper, NameWxyz}
AllNames == ValidNames \cup {NameShort, NameBang, NameThree, NameDigit, NameDash}

\* re.match(CHANNEL_REGEX, v) with CHANNEL_REGEX = ^[a-zA-Z][a-zA-Z0-9_]{3,31}$
CHANNEL_REGEX(v) ==
    /\ Len(v) >= 4
    /\ Len(v) <= 32
    /\ v[1] \in Letters
    /\ \A i \in 2..Len(v) : v[i] \in Letters \cup Digits \cup {"_"}

\* Request.valid_channel: re.match(r"^[a-zA-Z0-9_-]{3,32}$", channel)
valid_channel(channel) ==
    /\ Len(channel) >= 3
    /\ Len(channel) <= 32
    /\ \A i \in 1..Len(channel) : channel[i] \in Letters \cup Digits \cup {"_", "-"}

RECURSIVE NumDigits(_)
\* len(str(n)) for n >= 0
NumDigits(n) == IF n < 10 THEN 1 ELSE 1 + NumDigits(n \div 10)

\* Request.valid_position: str(position) matches ^[0-9]{1,6}$ and
\* 0 <= position <= 10_000_000
valid_position(position) ==
    /\ position >= 0
    /\ NumDigits(position) <= 6
    /\ position <= 10000000

(***************************************************************************)
(* Message nodes and pages: what the parsers read from the HTML.           *)
(***************************************************************************)
ContentKeys == {"text", "media", "poll", "inline", "reply", "preview_link", "reacts"}

NoText == [present |-> FALSE, string |-> <<>>]
TextOf(s) == [present |-> TRUE, string |-> s]

\* a message node with nothing in its bubble but the footer
Node(id, text, media, poll, reacts, views, edited, hours) ==
    [id |-> id, text |-> text, media |-> media, poll |-> poll,
     inline |-> FALSE, reply |-> FALSE, preview_link |-> FALSE,
     reacts |-> reacts, views |-> views, edited |-> edited, hours |-> hours]

TextNode(id) == Node(id, TextOf(<<"h", "i">>), <<>>, FALSE, <<>>, <<"7">>, FALSE, 1)
PhotoNode(id) == Node(id, NoText, <<"image">>, FALSE, <<>>, <<"9">>, FALSE, 2)
\* a service message: none of the content sub-parsers finds anything
ServiceNode(id) == Node(id, NoText, <<>>, FALSE, <<>>, <<>>, FALSE, 3)

NodeVariants(id) == {TextNode(id), PhotoNode(id), ServiceNode(id)}

HeaderAbcd ==
    [username |-> NameAbcd, title |-> "Abcd", subscribers |-> <<"2">>]
HeaderWxyz ==
    [username |-> NameWxyz, title |-> "Wxyz", subscribers |-> <<"1", "k">>]

\* the pages t.me can serve: message nodes in ascending id order
RECURSIVE NodeSeqs(_)
NodeSeqs(maxId) ==
    IF maxId = 0 THEN {<<>>}
    ELSE LET shorter == NodeSeqs(maxId - 1)
         IN  shorter \cup {Append(s, n) : s \in shorter, n \in NodeVariants(maxId)}

\* str.lower() on the characters of the model
LowerChar(c) ==
    CASE c = "A" -> "a" [] c = "B" -> "b" [] c = "K" -> "k" [] c = "M" -> "m"
      [] OTHER -> c
Lower(s) == [i \in 1..Len(s) |-> LowerChar(s[i])]

\* t.me resolves usernames case-insensitively
HeaderFor(channel) == IF Lower(channel) = NameAbcd THEN HeaderAbcd ELSE HeaderWxyz

Pages(channel) ==
    {[channel |-> HeaderFor(channel), nodes |-> ns, offset |-> [before |-> 1]] :
        ns \in NodeSeqs(MaxPostId)}

(***************************************************************************)
(* Post parser (app/telegram/parser/types/post.py).                        *)
(***************************************************************************)
NoSelector == [some |-> FALSE, value |-> 0]
Selector(id) == [some |-> TRUE, value |-> id]

\* whether the sub-parser of content field k returns a truthy value
FieldFound(node, k) ==
    CASE k = "text" -> node.text.present
      [] k = "media" -> node.media # <<>>
      [] k = "poll" -> node.poll
      [] k = "inline" -> node.inline
      [] k = "reply" -> node.reply
      [] k = "preview_link" -> node.preview_link
      [] k = "reacts" -> node.reacts # <<>>

FieldValue(node, k) ==
    CASE k = "text" -> [string |-> node.text.string]
      [] k = "media" -> [i \in 1..Len(node.media) |-> [type |-> node.media[i]]]
      [] k = "reacts" -> node.reacts
      [] OTHER -> TRUE

\* Post.__parse_content_fields: {k: v for k, v in content_fields.items() if v}
parse_content_fields(node) ==
    [k \in {f \in ContentKeys : FieldFound(node, f)} |-> FieldValue(node, k)]

\* Post.footer
footer(node) ==
    [views |-> node.views, edited |-> node.edited, date |-> [hours |-> node.hours]]

\* Post.__build_post_object
build_post_object(node, content) ==
    [id |-> node.id, content |-> content, footer |-> footer(node)]

\* a selector check that lets every message through
check_selector_All(identifier, selector) == TRUE

\* Post.__check_selector
check_selector(identifier, selector) ==
    IF ~selector.some THEN TRUE ELSE identifier = selector.value

RECURSIVE Post_get_from(_, _, _)
Post_get_from(nodes, selector, i) ==
    IF i > Len(nodes) THEN <<>>
    ELSE IF ~check_selector(nodes[i].id, selector)
         THEN Post_get_from(nodes, selector, i + 1)
         ELSE <<build_post_object(nodes[i], parse_content_fields(nodes[i]))>>
              \o Post_get_from(nodes, selector, i + 1)

\* Post.get(selector): one post per selected message node, in document order
Post_get(nodes, selector) == Post_get_from(nodes, selector, 1)

RECURSIVE LegacyPost_get_from(_, _)
LegacyPost_get_from(nodes, i) ==
    IF i > Len(nodes) THEN <<>>
    ELSE LET content ==
                 [k \in {f \in {"text", "media", "poll", "inline"} :
                            FieldFound(nodes[i], f)} |-> FieldValue(nodes[i], k)]
         IN  IF DOMAIN content = {}
             THEN LegacyPost_get_from(nodes, i + 1)     \* skip if no content
             ELSE <<[id |-> nodes[i].id, content |-> content,
                     footer |-> footer(nodes[i])]>>
                  \o LegacyPost_get_from(nodes, i + 1)

\* the first generation of Post.get (telegram/parser.py), which skips a
\* message whose content map is empty
LegacyPost_get(nodes) == LegacyPost_get_from(nodes, 1)

\* Body.get(selector)
Body_get(page, selector) ==
    [channel |-> page.channel,
     content |-> [posts |-> Post_get(page.nodes, selector)],
     meta |-> [offset |-> page.offset]]

\* More.get()
More_get(page) ==
    [posts |-> Post_get(page.nodes, NoSelector),
     meta |-> [offset |-> page.offset]]

(***************************************************************************)
(* Request (app/telegram/request.py).  An upstream answer is one of        *)
(*   status    a response whose status is not 200                          *)
(*   error     the HTTP client raises (network failure, undecodable body)  *)
(*   empty     status 200 with an empty string                             *)
(*   page      status 200 with a page the parsers can read                 *)
(*   malformed status 200 with markup on which a parser raises             *)
(*   json      (more only) status 200 with JSON that is not a string       *)
(***************************************************************************)
RespNone == [kind |-> "none"]
RespError == [kind |-> "error"]

UpstreamAnswers(channel) ==
    {[kind |-> "status"], [kind |-> "error"], [kind |-> "empty"], [kind |-> "malformed"]}
        \cup {[kind |-> "page", page |-> p] : p \in Pages(channel)}

\* Request.__request followed by "return response if response else None"
request(answer) ==
    CASE answer.kind = "status" -> RespNone
      [] answer.kind = "empty" -> RespNone
      [] OTHER -> answer

\* Request.body returns None without a request
body_refused(channel, position) ==
    \/ ~valid_channel(channel)
    \/ position # 0 /\ ~valid_position(position)

\* Request.more and Request.preview return None without a request
channel_refused(channel) == ~valid_channel(channel)

\* Request.body
Request_body(channel, position, answer) ==
    IF body_refused(channel, position) THEN RespNone ELSE request(answer)

\* Request.more: the JSON body is returned as it is when it is a string
Request_more(channel, position, direction, answer) ==
    IF channel_refused(channel) THEN RespNone
    ELSE CASE answer.kind = "status" -> RespNone
           [] answer.kind = "json" /\ ~answer.truthy -> RespNone
           [] OTHER -> answer

(***************************************************************************)
(* Telegram facade (app/telegram/telegram.py).  A call returns the empty   *)
(* map, a value, or raises.                                                *)
(***************************************************************************)
Empty == [kind |-> "empty"]
Raised == [kind |-> "raised"]
Value(v) == [kind |-> "value", value |-> v]

\* the value None of the program
PyNone == [py |-> "None"]

\* "not result" for what a facade method returned: the empty map or None
falsy(result) == result = Empty \/ result = Value(PyNone)

NoStatus == 0

\* a handler that answers 200 where the facade returned nothing
route_status_FoundAlways(op, result) ==
    IF result = Raised THEN {500} ELSE {200}

\* the route handlers of body, more, post and preview: an exception of the
\* facade is answered 500 by the framework; "if not result: raise
\* HTTPException(status_code=404)"; body and preview validate the result
\* against their response model and answer 400 when that raises
route_status(op, result) ==
    IF result = Raised THEN {500}
    ELSE IF falsy(result) THEN {404}
    ELSE IF op \in {"body", "preview"} THEN {200, 400}
    ELSE {200}

\* Telegram.body
Telegram_body(response) ==
    CASE response.kind = "error" -> Raised
      [] response.kind = "none" -> Empty
      [] response.kind = "malformed" -> Raised
      [] response.kind = "page" -> Value(Body_get(response.page, NoSelector))

\* a boundary filter that removes the pivot and every later post
FilterPivot_Below(posts, position) ==
    SeqFilterIdx(posts, {i \in 1..Len(posts) : posts[i].id < position}, 1)

\* a boundary filter that lets the pivot through
FilterPivot_KeepAll(posts, position) == posts

\* the posts of a More document without the one at the pivot
FilterPivot(posts, position) ==
    SeqFilterIdx(posts, {i \in 1..Len(posts) : posts[i].id # position}, 1)

\* Telegram.more, for a response More can parse
Telegram_more_parsed(response, position) ==
    LET parsed == More_get(response.page)
    IN  Value([parsed EXCEPT !.posts = FilterPivot(parsed.posts, position)])

\* Telegram.more.  The parse of the empty string either raises or yields a
\* document without posts.
Telegram_more(response, position) ==
    CASE response.kind = "error" -> {Raised}
      [] response.kind = "empty" ->
            {Raised, Value([posts |-> <<>>, meta |-> [offset |-> <<>>]])}
      [] response.kind = "none" -> {Empty}
      [] response.kind \in {"malformed", "json"} -> {Raised}
      [] response.kind = "page" -> {Telegram_more_parsed(response, position)}

\* Telegram.post
Telegram_post(response, position, only_post) ==
    CASE response.kind = "error" -> Raised
      [] response.kind = "none" -> Empty
      [] response.kind = "malformed" -> Raised
      [] response.kind = "page" ->
            LET doc == Body_get(response.page, Selector(position))
            IN  IF doc.content.posts = <<>> THEN Empty
                ELSE IF only_post THEN Value(doc.content.posts[1])
                ELSE Value(doc)

\* MAX_POST_ID = 10 ** 7
MAX_POST_ID == 10000000

\* the positions asked for: small ones, and those around six digits and
\* around MAX_POST_ID
Positions == (0..MaxPosition) \cup {999999, 1000000, MAX_POST_ID, MAX_POST_ID + 1}
Directions == {"after", "before"}

NoCall == [op |-> "none"]

FacadeInit ==
    /\ last_call = NoCall
    /\ last_response = RespNone
    /\ last_result = Empty
    /\ last_status = NoStatus

Body(channel, position, answer) ==
    LET response == Request_body(channel, position, answer)
    IN  /\ last_call = NoCall
        /\ last_call' = [op |-> "body", channel |-> channel, position |-> position,
                         sent |-> ~body_refused(channel, position)]
        /\ last_response' = response
        /\ last_result' = Telegram_body(response)
        /\ last_status' \in route_status("body", last_result')
        /\ UNCHANGED <<feedVars, previewVars, pureVars>>

More(channel, position, direction, answer) ==
    LET response == Request_more(channel, position, direction, answer)
    IN  /\ last_call = NoCall
        /\ last_call' = [op |-> "more", channel |-> channel, position |-> position,
                         direction |-> direction, sent |-> ~channel_refused(channel)]
        /\ last_response' = response
        /\ last_result' \in Telegram_more(response, position)
        /\ last_status' \in route_status("more", last_result')
        /\ UNCHANGED <<feedVars, previewVars, pureVars>>

GetPost(channel, position, only_post, answer) ==
    LET response == Request_body(channel, position, answer)
    IN  /\ last_call = NoCall
        /\ last_call' = [op |-> "post", channel |-> channel, position |-> position,
                         only_post |-> only_post, sent |-> ~body_refused(channel, position)]
        /\ last_response' = response
        /\ last_result' = Telegram_post(response, position, only_post)
        /\ last_status' \in route_status("post", last_result')
        /\ UNCHANGED <<feedVars, previewVars, pureVars>>

\* the caller has its answer; the facade keeps no state between calls
Return ==
    /\ last_call # NoCall
    /\ last_call' = NoCall
    /\ last_response' = RespNone
    /\ last_result' = Empty
    /\ last_status' = NoStatus
    /\ UNCHANGED <<feedVars, previewVars, pureVars>>

\* a request comes in when the previous one has been answered
FacadeCall ==
    /\ last_call = NoCall
    /\ \E channel \in AllNames, position \in Positions :
        \/ \E answer \in UpstreamAnswers(channel) : Body(channel, position, answer)
        \/ \E answer \in UpstreamAnswers(channel) \cup
                    {[kind |-> "json", truthy |-> t] : t \in BOOLEAN},
              direction \in Directions :
                More(channel, position, direction, answer)
        \/ \E answer \in UpstreamAnswers(channel), only_post \in BOOLEAN :
                GetPost(channel, position, only_post, answer)

FacadeNext == FacadeCall \/ Return

(***************************************************************************)
(* Feed engine (app/utils/feed.py): numeric parsing and scoring.           *)
(* Scores are floats in the program; the model computes them in fixed      *)
(* point: ratios in thousandths, the final score in millionths.            *)
(***************************************************************************)
Min(a, b) == IF a <= b THEN a ELSE b
Max(a, b) == IF a >= b THEN a ELSE b

DigitVal(c) ==
    CASE c = "0" -> 0 [] c = "1" -> 1 [] c = "2" -> 2 [] c = "3" -> 3 [] c = "4" -> 4
      [] c = "5" -> 5 [] c = "6" -> 6 [] c = "7" -> 7 [] c = "8" -> 8 [] c = "9" -> 9

\* str.replace(c, '')
RemoveChar(s, c) == SelectSeq(s, LAMBDA x : x # c)

\* str.isdigit()
IsDigits(s) == s # <<>> /\ \A i \in 1..Len(s) : s[i] \in Digits

RECURSIVE DigitsToIntUpTo(_, _)
\* the number the first n digits of s write
DigitsToIntUpTo(s, n) ==
    IF n = 0 THEN 0
    ELSE 10 * DigitsToIntUpTo(s, n - 1) + DigitVal(s[n])

\* int() of a string of digits ('' counts as 0 for the parts of a float)
DigitsToInt(s) == DigitsToIntUpTo(s, Len(s))

RECURSIVE FractionFrom(_, _, _)
\* the digits f[i..] as a number of 1/scale, f[i] weighing scale/10
FractionFrom(f, i, scale) ==
    IF i > Len(f) \/ scale = 1 THEN 0
    ELSE DigitVal(f[i]) * (scale \div 10) + FractionFrom(f, i + 1, scale \div 10)

\* the digits of the fraction f as a number of 1/scale, scale a power of ten
FractionScaled(f, scale) == FractionFrom(f, 1, scale)

\* whether float() accepts s (digits around at most one point, one digit at least)
IsFloat(s) ==
    /\ \A i \in 1..Len(s) : s[i] \in Digits \cup {"."}
    /\ Cardinality({i \in 1..Len(s) : s[i] = "."}) <= 1
    /\ \E i \in 1..Len(s) : s[i] \in Digits

\* int(float(s) * scale) for a string float() accepts
FloatTimes(s, scale) ==
    LET dots == {i \in 1..Len(s) : s[i] = "."}
        dot == IF dots = {} THEN Len(s) + 1 ELSE CHOOSE i \in dots : TRUE
    IN  DigitsToInt(SubSeq(s, 1, dot - 1)) * scale
            + FractionScaled(SubSeq(s, dot + 1, Len(s)), scale)

\* PostDataPreparer.parse_numeric_value, from "if cleaned.isdigit()" on
parse_cleaned(cleaned, default) ==
    IF IsDigits(cleaned) THEN DigitsToInt(cleaned)
    ELSE IF "k" \in Range(cleaned)
         THEN IF IsFloat(RemoveChar(cleaned, "k"))
              THEN FloatTimes(RemoveChar(cleaned, "k"), 1000)
              ELSE default
    ELSE IF "m" \in Range(cleaned)
         THEN IF IsFloat(RemoveChar(cleaned, "m"))
              THEN FloatTimes(RemoveChar(cleaned, "m"), 1000000)
              ELSE default
    ELSE default

\* whether float() reads s as an infinity; int() of an infinity raises
\* OverflowError
IsInf(s) == s \in {<<"i", "n", "f">>, <<"i", "n", "f", "i", "n", "i", "t", "y">>}

\* the exceptions "except (ValueError, TypeError)" does not catch
raises_cleaned(cleaned) ==
    /\ ~IsDigits(cleaned)
    /\ IF "k" \in Range(cleaned) THEN IsInf(RemoveChar(cleaned, "k"))
       ELSE "m" \in Range(cleaned) /\ IsInf(RemoveChar(cleaned, "m"))

\* whether PostDataPreparer.parse_numeric_value raises
parse_numeric_raises(value_str) ==
    value_str # <<>> /\ raises_cleaned(Lower(RemoveChar(value_str, " ")))

\* PostDataPreparer.parse_numeric_value, when it returns
parse_numeric_value(value_str, default) ==
    IF value_str = <<>> THEN default
    ELSE CHOOSE n \in {parse_cleaned(cleaned, default) :
                        cleaned \in {Lower(RemoveChar(value_str, " "))}} : TRUE

\* PostDataPreparer.parse_content_type_single
parse_content_type_single(post_content) ==
    LET media == IF "media" \in DOMAIN post_content THEN post_content["media"] ELSE <<>>
        count(type) == Cardinality({i \in 1..Len(media) : media[i].type = type})
    IN  [text |-> IF "text" \in DOMAIN post_content
                  THEN post_content["text"].string ELSE <<>>,
         photos |-> count("image"),
         videos |-> count("video"),
         gifs |-> count("sticker"),
         poll |-> 0]

\* Post.POSITIVE_REACTIONS and Post.NEGATIVE_REACTIONS, by the names of the glyphs
POSITIVE_REACTIONS == {"thumbs_up", "heart", "fire"}
NEGATIVE_REACTIONS == {"thumbs_down", "clown"}

RECURSIVE SumCounts(_, _)
\* PostDataPreparer.parse_reactions_single summed over the emojis of one
\* category: a reaction counts when its count is positive, and of two such
\* reactions with one emoji the later one (the dict keeps the last written)
SumCounts(reacts, emojis) ==
    IF reacts = <<>> THEN 0
    ELSE LET r == Head(reacts)
             n == parse_numeric_value(r.count, 0)
             later == \E i \in 2..Len(reacts) :
                         /\ reacts[i].emoji = r.emoji
                         /\ parse_numeric_value(reacts[i].count, 0) > 0
         IN  (IF r.emoji \in emojis /\ n > 0 /\ ~later THEN n ELSE 0)
                + SumCounts(Tail(reacts), emojis)

\* Post.engagement_score, in thousandths
engagement_score(views, reacts, comments, subscribers) ==
    LET positive == SumCounts(reacts, POSITIVE_REACTIONS)
        negative == SumCounts(reacts, NEGATIVE_REACTIONS)
        reaction_pct == (1000 * (positive - negative)) \div subscribers
        comments_pct == (1000 * comments) \div subscribers
        views_pct == (1000 * views) \div subscribers
    IN  (Min(views_pct, 10000) + Min(reaction_pct, 1000) + Min(comments_pct, 500)) \div 3

\* Post.content_score, in thousandths
content_score(content) ==
    LET media_bonus == 300 * Min(content.photos, 10) + 500 * Min(content.videos, 10)
                         + 200 * Min(content.gifs, 10) + 300 * Min(content.poll, 10)
        text_bonus == Min(Len(content.text) \div 5, 200)
    IN  Min(media_bonus + text_bonus, 3000)

\* 0.8 * exp(-0.8 * (days - 1)) at days = 1..7 and 0.1 * exp(-2 * (weeks - 1))
\* at weeks = 1..3, in thousandths
FreshnessByDay == <<800, 359, 162, 73, 33, 15, 7>>
FreshnessByWeek == <<100, 14, 2>>

\* Post.freshness_score, in thousandths, for a post published hours ago
freshness_score(hours) ==
    IF hours <= 24 THEN 1000 - (200 * hours) \div 24
    ELSE IF hours <= 168 THEN FreshnessByDay[hours \div 24]
    ELSE IF hours \div 168 <= Len(FreshnessByWeek)
         THEN Max(1, FreshnessByWeek[hours \div 168])
    ELSE 1

\* Post.score, in millionths
score(views, reacts, comments, subscribers, content, edited, hours) ==
    LET engagement == engagement_score(views, reacts, comments, Max(subscribers, 1))
        base_score == (400 * engagement + 200 * content_score(content)
                         + (IF edited THEN 20000 ELSE 0)) \div 1000
    IN  CHOOSE final \in {Min(raw_score, 10000000) :
                             raw_score \in {base_score * (freshness_score(hours) + 100)}} : TRUE

\* PostDataPreparer._process_post_instant and the finalisation of one post in
\* _process_channel_posts_ultra_fast: the post with its channel and _score
final_post(post_data, channel_info, comments) ==
    CHOOSE post \in
        {[id |-> post_data.id,
          content |-> post_data.content,
          footer |-> post_data.footer,
          channel |-> channel_info,
          _score |-> _score] :
            _score \in
                {score(views, reacts, comments, subscribers, content,
                       post_data.footer.edited, post_data.footer.date.hours) :
                    subscribers \in {parse_numeric_value(channel_info.subscribers, 1)},
                    views \in {parse_numeric_value(post_data.footer.views, 0)},
                    reacts \in {IF "reacts" \in DOMAIN post_data.content
                                 THEN post_data.content["reacts"] ELSE <<>>},
                    content \in {parse_content_type_single(post_data.content)}}} : TRUE

(***************************************************************************)
(* Feed engine: fetch_channel_data_batch, the comment counts, the ranking. *)
(***************************************************************************)
EmptyMap == [x \in {} |-> 0]
Put(m, k, v) == [x \in DOMAIN m \cup {k} |-> IF x = k THEN v ELSE m[x]]

Pending == [kind |-> "pending"]
NotStarted == [kind |-> "idle"]
TimedOut == [kind |-> "timeout"]

\* self._cache_ttl, the timeouts of wait_for, BATCH_SIZE and max_concurrent
feed_cache_ttl == 60
BATCH_SIZE == 20
max_concurrent == 8

\* the cache test of fetch_channel_data_batch: an entry younger than the TTL
IsFresh(cache, key, time) == key \in DOMAIN cache /\ time - cache[key].timestamp < feed_cache_ttl

RECURSIVE FetchTasks(_, _, _, _)
\* the keys of the tasks dict, in insertion order: every requested name that
\* has no fresh cache entry, once
FetchTasks(names, cache, time, i) ==
    IF i > Len(names) THEN <<>>
    ELSE LET rest == FetchTasks(names, cache, time, i + 1)
             first == \A j \in 1..(i - 1) : names[j] # names[i]
         IN  IF IsFresh(cache, Lower(names[i]), time) \/ ~first THEN rest
             ELSE <<names[i]>> \o rest

\* a cache update that gives up the batch when one fetch raised or timed out
UpdateCache_FailedBatch(cache, tasks, results, time, i) ==
    IF \E n \in Range(tasks) : results[n].kind \in {"raised", "timeout"} THEN cache
    ELSE [k \in DOMAIN cache \cup {Lower(n) : n \in {m \in Range(tasks) : results[m].kind = "value"}} |->
            IF \E n \in Range(tasks) : Lower(n) = k /\ results[n].kind = "value"
            THEN [data |-> results[CHOOSE n \in Range(tasks) :
                                     Lower(n) = k /\ results[n].kind = "value"].value,
                  timestamp |-> time]
            ELSE cache[k]]

RECURSIVE UpdateCache(_, _, _, _, _)
\* "Update cache": every task's result that is no exception and is truthy
\* is stored under the lowercased name, in the order of the tasks
UpdateCache(cache, tasks, results, time, i) ==
    IF i > Len(tasks) THEN cache
    ELSE LET r == results[tasks[i]]
             next == IF r.kind = "value"
                     THEN Put(cache, Lower(tasks[i]), [data |-> r.value, timestamp |-> time])
                     ELSE cache
         IN  UpdateCache(next, tasks, results, time, i + 1)

\* "Return all data (cached + fresh)"
ChannelData(names, cache) ==
    [n \in {m \in Range(names) : Lower(m) \in DOMAIN cache} |-> cache[Lower(n)].data]

\* a count that lets the exception of a fetch through as a non-zero value
CommentCount_NoFallback(status) == IF status.kind = "count" THEN status.n ELSE 1

\* the count _fetch_comment_batch_with_fallback records for one finished fetch
CommentCount(status) == IF status.kind = "count" THEN status.n ELSE 0

\* comments_map.get((username, post_id), 0) for the posts of one task
CommentsOf(task, id) ==
    IF id \in DOMAIN task.results THEN task.results[id] ELSE 0

\* the posts one channel task returns
FinalPosts(task) ==
    LET posts_data == task.doc.content.posts
    IN  [i \in 1..Len(posts_data) |->
            final_post(posts_data[i], task.doc.channel, CommentsOf(task, posts_data[i].id))]

\* a sort that leaves the posts in the order of the channel tasks
SortByScore_Unsorted(posts) == posts

\* list.sort(key=_score, reverse=True), which is stable: a post comes after
\* the posts of greater _score and after those of equal _score that precede
\* it in the list
SortByScore(posts) ==
    LET n == Len(posts)
        precedes(j, i) ==
            \/ posts[j]._score > posts[i]._score
            \/ posts[j]._score = posts[i]._score /\ j < i
        place(i) == Cardinality({j \in 1..n : precedes(j, i)}) + 1
    IN  [k \in 1..n |-> posts[CHOOSE i \in 1..n : place(i) = k]]

\* a key that forgets the channel
PostKey_IdOnly(post) == <<post.id>>

PostKey(post) == <<post.channel.username, post.id>>

\* a deduplication that keeps the last post of each key
Deduplicate_KeepLast(posts) ==
    SeqFilterIdx(posts,
                 {i \in 1..Len(posts) :
                    \A j \in (i + 1)..Len(posts) : PostKey(posts[j]) # PostKey(posts[i])},
                 1)

\* the loop of create_feed over the sorted posts: the first post of each key
Deduplicate(posts) ==
    SeqFilterIdx(posts,
                 {i \in 1..Len(posts) :
                    \A j \in 1..(i - 1) : PostKey(posts[j]) # PostKey(posts[i])},
                 1)

RECURSIVE Flatten(_, _)
\* all_posts.extend(result) over the channel tasks in order
Flatten(tasks, i) ==
    IF i > Len(tasks) THEN <<>>
    ELSE tasks[i].final_posts \o Flatten(tasks, i + 1)

(***************************************************************************)
(* The pages the feed's channels serve.                                    *)
(***************************************************************************)
React(emoji, count) == [emoji |-> emoji, count |-> count]

FeedNodeA1 ==
    Node(1, TextOf(<<"h", "i">>), <<>>, FALSE, <<React("thumbs_up", <<"3">>)>>,
         <<"7">>, FALSE, 1)
FeedNodeA2 ==
    Node(2, NoText, <<"image">>, FALSE, <<React("clown", <<"1">>)>>,
         <<"1", "2">>, TRUE, 30)
FeedNodeW1 ==
    Node(1, TextOf(<<"y", "o">>), <<"video">>, FALSE, <<>>, <<"1", ".", "2", "K">>,
         FALSE, 2)
FeedNodeW2 ==
    Node(2, TextOf(<<"y", "o">>), <<"image">>, FALSE, <<React("fire", <<"5">>)>>,
         <<"9", "0", "0">>, FALSE, 5)

FeedPage(channel, nodes) ==
    [channel |-> HeaderFor(channel), nodes |-> nodes, offset |-> [before |-> 1]]

FeedPages(key) ==
    IF key = NameAbcd
    THEN {FeedPage(key, <<>>), FeedPage(key, <<FeedNodeA1, FeedNodeA2>>)}
    ELSE {FeedPage(key, <<FeedNodeW1, FeedNodeW2>>)}

\* every assignment of a page to each of the channels keys
ServedPages(keys) ==
    {pages \in [keys -> UNION {FeedPages(k) : k \in keys}] :
        \A k \in keys : pages[k] \in FeedPages(k)}

RECURSIVE SeqsUpTo(_, _)
\* the sequences over S of length 1..n
SeqsUpTo(S, n) ==
    IF n = 0 THEN {}
    ELSE LET shorter == SeqsUpTo(S, n - 1)
         IN  {<<x>> : x \in S} \cup {Append(q, x) : q \in shorter, x \in S}

(***************************************************************************)
(* The feed request: create_feed and prepare_multiple_channels.            *)
(***************************************************************************)
FeedInit ==
    /\ feed_pc = "idle"
    /\ usernames = <<>>
    /\ served = EmptyMap
    /\ fetch_tasks = <<>>
    /\ fetch_results = EmptyMap
    /\ channel_cache = EmptyMap
    /\ comment_cache = EmptyMap
    /\ channel_tasks = <<>>
    /\ semaphore = 0
    /\ all_posts = <<>>
    /\ feed_result = <<>>
    /\ now = 0

\* create_feed builds a PostDataPreparer, whose caches are empty, and
\* fetch_channel_data_batch creates one body fetch per requested name.  The
\* page of a channel is the same for every fetch of this request.
StartFeed(names, pages) ==
    /\ feed_pc = "idle"
    /\ feed_pc' = "fetching"
    /\ usernames' = names
    /\ served' = pages
    /\ channel_cache' = EmptyMap
    /\ comment_cache' = EmptyMap
    /\ fetch_tasks' = FetchTasks(names, EmptyMap, now, 1)
    /\ fetch_results' = [n \in Range(FetchTasks(names, EmptyMap, now, 1)) |-> Pending]
    /\ channel_tasks' = <<>>
    /\ semaphore' = 0
    /\ all_posts' = <<>>
    /\ feed_result' = <<>>
    /\ UNCHANGED <<now, facadeVars, previewVars, pureVars>>

\* asyncio.wait_for(self.telegram.body(username), timeout=8.0) finishes: with
\* what Telegram.body returns or raises, or with TimeoutError
FetchDone(name, outcome) ==
    /\ feed_pc = "fetching"
    /\ name \in DOMAIN fetch_results
    /\ fetch_results[name] = Pending
    /\ fetch_results' = [fetch_results EXCEPT ![name] = outcome]
    /\ UNCHANGED <<feed_pc, usernames, served, fetch_tasks, channel_cache, comment_cache,
                   channel_tasks, semaphore, all_posts, feed_result, now, facadeVars, previewVars, pureVars>>

FetchOutcomes(name) ==
    {Telegram_body(Request_body(name, 0, answer)) :
        answer \in {[kind |-> "status"], [kind |-> "error"], [kind |-> "empty"],
                    [kind |-> "malformed"],
                    [kind |-> "page", page |-> served[Lower(name)]]}}
        \cup {TimedOut}

NewChannelTask(name, doc) ==
    [username |-> name, doc |-> doc, pc |-> "start", current_time |-> 0,
     results |-> EmptyMap, remaining |-> <<>>, batch |-> 0, fetches |-> <<>>,
     final_posts |-> <<>>]

\* the gather of the body fetches returns: the cache is updated, the channel
\* data map is built and one channel task is created per listed name in it
GatherChannels ==
    /\ feed_pc = "fetching"
    /\ \A n \in DOMAIN fetch_results : fetch_results[n] # Pending
    /\ LET cache == UpdateCache(channel_cache, fetch_tasks, fetch_results, now, 1)
           channel_data_map == ChannelData(usernames, cache)
           listed == SeqFilterIdx(usernames,
                        {i \in 1..Len(usernames) : usernames[i] \in DOMAIN channel_data_map},
                        1)
       IN  /\ channel_cache' = cache
           /\ channel_tasks' =
                [i \in 1..Len(listed) |-> NewChannelTask(listed[i], channel_data_map[listed[i]])]
    /\ feed_pc' = "processing"
    /\ UNCHANGED <<usernames, served, fetch_tasks, fetch_results, comment_cache,
                   semaphore, all_posts, feed_result, now, facadeVars, previewVars, pureVars>>

\* _process_channel_posts_ultra_fast up to its first suspension: it takes the
\* semaphore, returns [] for a document without posts, and otherwise creates
\* the comments task and processes the posts
Acquire(t) ==
    /\ feed_pc = "processing"
    /\ t \in 1..Len(channel_tasks)
    /\ channel_tasks[t].pc = "start"
    /\ semaphore < max_concurrent
    /\ IF channel_tasks[t].doc.content.posts = <<>>
       THEN /\ channel_tasks' = [channel_tasks EXCEPT ![t].pc = "returned"]
            /\ UNCHANGED semaphore
       ELSE /\ channel_tasks' = [channel_tasks EXCEPT ![t].pc = "comments_created"]
            /\ semaphore' = semaphore + 1
    /\ UNCHANGED <<feed_pc, usernames, served, fetch_tasks, fetch_results, channel_cache,
                   comment_cache, all_posts, feed_result, now, facadeVars, previewVars, pureVars>>

\* the indexes of the fetches of the batch that starts at index i (from 0)
BatchIndexes(remaining, i) == {j \in 1..Len(remaining) : j > i /\ j <= i + BATCH_SIZE}

\* a task that never leaves its wait for the comment counts
Finish_NeverReturns(task, results) == [task EXCEPT !.results = results, !.pc = "waiting"]

\* what one channel task returns once its comment counts are known, and its
\* release of the semaphore
Finish(task, results) ==
    LET done == [task EXCEPT !.results = results, !.pc = "returned"]
    IN  [done EXCEPT !.final_posts = FinalPosts(done)]

\* fetch_comments_count_ultra_batch starts: counts younger than the TTL come
\* from the cache, the first batch of fetches is created for the others
CommentsStart(t) ==
    /\ feed_pc = "processing"
    /\ t \in 1..Len(channel_tasks)
    /\ channel_tasks[t].pc = "comments_created"
    /\ \E task \in {channel_tasks[t]} :
       \E posts \in {task.doc.content.posts} :
       \E hits \in {{i \in 1..Len(posts) :
                        IsFresh(comment_cache, <<task.username, posts[i].id>>, now)}} :
       \E results \in {[id \in {posts[i].id : i \in hits} |->
                            comment_cache[<<task.username, id>>].data]} :
       \E remaining \in {SeqFilterIdx([i \in 1..Len(posts) |-> posts[i].id],
                                       (1..Len(posts)) \ hits, 1)} :
            IF remaining = <<>>
            THEN /\ channel_tasks' = [channel_tasks EXCEPT ![t] = Finish(task, results)]
                 /\ semaphore' = semaphore - 1
            ELSE /\ channel_tasks' =
                     [channel_tasks EXCEPT
                         ![t] = [task EXCEPT
                                   !.pc = "batch",
                                   !.current_time = now,
                                   !.results = results,
                                   !.remaining = remaining,
                                   !.batch = 0,
                                   !.fetches = [j \in 1..Len(remaining) |->
                                                   IF j \in BatchIndexes(remaining, 0)
                                                   THEN Pending ELSE NotStarted]]]
                 /\ UNCHANGED semaphore
    /\ UNCHANGED <<feed_pc, usernames, served, fetch_tasks, fetch_results, channel_cache,
                   comment_cache, all_posts, feed_result, now, facadeVars, previewVars, pureVars>>

\* one wait_for(_fetch_single_comment_fast(url), timeout=6.0) finishes: with
\* the count of the page, with the 0 of a failed request, or with TimeoutError
CommentOutcomes ==
    {[kind |-> "count", n |-> n] : n \in 0..MaxCommentCount}
        \cup {[kind |-> "failed"], TimedOut}

CommentFetchDone(t, j, outcome) ==
    /\ feed_pc = "processing"
    /\ t \in 1..Len(channel_tasks)
    /\ channel_tasks[t].pc = "batch"
    /\ j \in 1..Len(channel_tasks[t].fetches)
    /\ channel_tasks[t].fetches[j] = Pending
    /\ channel_tasks' = [channel_tasks EXCEPT ![t].fetches[j] = outcome]
    /\ UNCHANGED <<feed_pc, usernames, served, fetch_tasks, fetch_results, channel_cache,
                   comment_cache, semaphore, all_posts, feed_result, now, facadeVars, previewVars, pureVars>>

RECURSIVE CacheCounts(_, _, _, _)
\* "Update cache and results" for the counts of one task
CacheCounts(cache, task, counts, j) ==
    IF j > Len(task.remaining) THEN cache
    ELSE CacheCounts(Put(cache, <<task.username, task.remaining[j]>>,
                         [data |-> counts[task.remaining[j]],
                          timestamp |-> task.current_time]),
                     task, counts, j + 1)

\* the gather of a batch returns: the next batch starts, or, after the last
\* one, the counts are cached, the posts are scored and the task returns
BatchGathered(t) ==
    /\ feed_pc = "processing"
    /\ t \in 1..Len(channel_tasks)
    /\ channel_tasks[t].pc = "batch"
    /\ \A j \in BatchIndexes(channel_tasks[t].remaining, channel_tasks[t].batch) :
            channel_tasks[t].fetches[j] \notin {Pending, NotStarted}
    /\ \E task \in {channel_tasks[t]} :
         IF task.batch + BATCH_SIZE < Len(task.remaining)
         THEN /\ channel_tasks' =
                    [channel_tasks EXCEPT
                        ![t].batch = task.batch + BATCH_SIZE,
                        ![t].fetches =
                            [j \in 1..Len(task.remaining) |->
                                IF j \in BatchIndexes(task.remaining, task.batch + BATCH_SIZE)
                                THEN Pending ELSE task.fetches[j]]]
              /\ UNCHANGED <<comment_cache, semaphore>>
         ELSE \E counts \in {[id \in Range(task.remaining) |->
                                CommentCount(task.fetches[CHOOSE j \in 1..Len(task.remaining) :
                                                            task.remaining[j] = id])]} :
              \E results \in {[id \in DOMAIN task.results \cup DOMAIN counts |->
                                 IF id \in DOMAIN counts THEN counts[id]
                                 ELSE task.results[id]]} :
                /\ channel_tasks' = [channel_tasks EXCEPT ![t] = Finish(task, results)]
                /\ comment_cache' = CacheCounts(comment_cache, task, counts, 1)
                /\ semaphore' = semaphore - 1
    /\ UNCHANGED <<feed_pc, usernames, served, fetch_tasks, fetch_results, channel_cache,
                   all_posts, feed_result, now, facadeVars, previewVars, pureVars>>

\* the gather of the channel tasks returns; create_feed sorts the posts by
\* _score, descending, and keeps the first post of each (username, id)
Rank ==
    /\ feed_pc = "processing"
    /\ \A t \in 1..Len(channel_tasks) : channel_tasks[t].pc = "returned"
    /\ \E posts \in {Flatten(channel_tasks, 1)} :
         /\ all_posts' = posts
         /\ \E sorted \in {SortByScore(posts)} : feed_result' = Deduplicate(sorted)
    /\ feed_pc' = "done"
    /\ UNCHANGED <<usernames, served, fetch_tasks, fetch_results, channel_cache,
                   comment_cache, channel_tasks, semaphore, now, facadeVars, previewVars, pureVars>>

\* the response is sent; the preparer of the request is dropped
FeedReturn ==
    /\ feed_pc = "done"
    /\ feed_pc' = "idle"
    /\ usernames' = <<>>
    /\ served' = EmptyMap
    /\ fetch_tasks' = <<>>
    /\ fetch_results' = EmptyMap
    /\ channel_cache' = EmptyMap
    /\ comment_cache' = EmptyMap
    /\ channel_tasks' = <<>>
    /\ semaphore' = 0
    /\ all_posts' = <<>>
    /\ feed_result' = <<>>
    /\ UNCHANGED <<now, facadeVars, previewVars, pureVars>>

FeedNext ==
    \/ \E names \in SeqsUpTo(ValidNames, MaxChannels) :
         \E pages \in ServedPages({Lower(n) : n \in Range(names)}) :
            StartFeed(names, pages)
    \/ \E name \in {n \in DOMAIN fetch_results : fetch_results[n] = Pending} :
         \E outcome \in FetchOutcomes(name) : FetchDone(name, outcome)
    \/ GatherChannels
    \/ \E t \in 1..Len(channel_tasks) : Acquire(t)
    \/ \E t \in 1..Len(channel_tasks) : CommentsStart(t)
    \/ \E t \in 1..Len(channel_tasks), outcome \in CommentOutcomes :
         \E j \in 1..Len(channel_tasks[t].fetches) : CommentFetchDone(t, j, outcome)
    \/ \E t \in 1..Len(channel_tasks) : BatchGathered(t)
    \/ Rank
    \/ FeedReturn

(***************************************************************************)
(* The comment phase on long pages: a channel page with more posts than    *)
(* one batch holds, listed once or twice in the request.  The comment      *)
(* pages of this specification answer in the order they were asked for,    *)
(* each with no comments.                                                  *)
(***************************************************************************)
LongPagePosts == 21     \* the posts of a long page: BATCH_SIZE and one more

LongPage(key) == FeedPage(key, [id \in 1..LongPagePosts |-> TextNode(id)])

\* the requests of this specification: one channel, the channel twice, and
\* two channels
LongRequests == {<<NameAbcd>>, <<NameAbcd, NameAbcd>>, <<NameAbcd, NameWxyz>>}

\* the fetch of task t that was asked for first among those in flight
FirstPending(t) ==
    {j \in 1..Len(channel_tasks[t].fetches) :
        /\ channel_tasks[t].fetches[j] = Pending
        /\ \A k \in 1..(j - 1) : channel_tasks[t].fetches[k] # Pending}

CommentsNext ==
    \/ \E names \in LongRequests :
         \E pages \in {[k \in {Lower(n) : n \in Range(names)} |-> LongPage(k)]} :
            feed_pc = "idle" /\ StartFeed(names, pages)
    \/ \E name \in {n \in DOMAIN fetch_results : fetch_results[n] = Pending} :
         \E outcome \in FetchOutcomes(name) : FetchDone(name, outcome)
    \/ GatherChannels
    \/ \E t \in 1..Len(channel_tasks) : Acquire(t)
    \/ \E t \in 1..Len(channel_tasks) : CommentsStart(t)
    \/ \E t \in 1..Len(channel_tasks) :
         \E j \in FirstPending(t) : CommentFetchDone(t, j, [kind |-> "count", n |-> 0])
    \/ \E t \in 1..Len(channel_tasks) : BatchGathered(t)
    \/ Rank
    \/ FeedReturn

(***************************************************************************)
(* One PostDataPreparer called again and again: fetch_channel_data_batch   *)
(* on a preparer that keeps its _channel_cache between the calls.  The     *)
(* clock advances between the calls; a call takes no time of the clock.    *)
(***************************************************************************)
MaxTime == 120      \* the clock runs from 0 to MaxTime
ClockStep == 30     \* and advances by ClockStep

\* fetch_channel_data_batch(names) up to its gather: one body fetch for
\* every name without a fresh cache entry
BatchCall(names, pages) ==
    /\ feed_pc = "idle"
    /\ feed_pc' = "batch"
    /\ usernames' = names
    /\ served' = pages
    /\ fetch_tasks' = FetchTasks(names, channel_cache, now, 1)
    /\ fetch_results' = [n \in Range(FetchTasks(names, channel_cache, now, 1)) |-> Pending]
    /\ UNCHANGED <<channel_cache, comment_cache, channel_tasks, semaphore, all_posts,
                   feed_result, now, facadeVars, previewVars, pureVars>>

\* a body fetch of the call finishes, as in FetchDone
BatchFetchDone(name, outcome) ==
    /\ feed_pc = "batch"
    /\ name \in DOMAIN fetch_results
    /\ fetch_results[name] = Pending
    /\ fetch_results' = [fetch_results EXCEPT ![name] = outcome]
    /\ UNCHANGED <<feed_pc, usernames, served, fetch_tasks, channel_cache, comment_cache,
                   channel_tasks, semaphore, all_posts, feed_result, now, facadeVars,
                   previewVars, pureVars>>

\* the gather returns (or there was no task): the cache is updated and the
\* call returns the entries of the cache for the names it was given
BatchGather ==
    /\ feed_pc = "batch"
    /\ \A n \in DOMAIN fetch_results : fetch_results[n] # Pending
    /\ channel_cache' = UpdateCache(channel_cache, fetch_tasks, fetch_results, now, 1)
    /\ feed_pc' = "batch_done"
    /\ UNCHANGED <<usernames, served, fetch_tasks, fetch_results, comment_cache,
                   channel_tasks, semaphore, all_posts, feed_result, now, facadeVars,
                   previewVars, pureVars>>

\* what the call returned: "Return all data (cached + fresh)"
BatchResult == ChannelData(usernames, channel_cache)

\* the caller has the channel data; the preparer keeps its cache
BatchDone ==
    /\ feed_pc = "batch_done"
    /\ feed_pc' = "idle"
    /\ usernames' = <<>>
    /\ served' = EmptyMap
    /\ fetch_tasks' = <<>>
    /\ fetch_results' = EmptyMap
    /\ UNCHANGED <<channel_cache, comment_cache, channel_tasks, semaphore, all_posts,
                   feed_result, now, facadeVars, previewVars, pureVars>>

\* time passes between two calls
Tick ==
    /\ feed_pc = "idle"
    /\ now + ClockStep <= MaxTime
    /\ now' = now + ClockStep
    /\ UNCHANGED <<feed_pc, usernames, served, fetch_tasks, fetch_results, channel_cache,
                   comment_cache, channel_tasks, semaphore, all_posts, feed_result,
                   facadeVars, previewVars, pureVars>>

BatchNext ==
    \/ \E names \in SeqsUpTo(ValidNames, MaxChannels) :
         \E pages \in ServedPages({Lower(n) : n \in Range(names)}) :
            feed_pc = "idle" /\ BatchCall(names, pages)
    \/ \E name \in {n \in DOMAIN fetch_results : fetch_results[n] = Pending} :
         \E outcome \in FetchOutcomes(name) : BatchFetchDone(name, outcome)
    \/ BatchGather
    \/ BatchDone
    \/ Tick

(***************************************************************************)
(* Preview (Telegram.preview and Telegram.previews) and its cache.         *)
(*                                                                         *)
(* A value of the program is None, a bool, a str or a dict with its keys   *)
(* in insertion order; the cache holds JSON text, a sequence of tokens.    *)
(***************************************************************************)
PyBool(b) == [py |-> "bool", v |-> b]
PyStr(s) == [py |-> "str", v |-> s]
PyDict(keys, vals) == [py |-> "dict", keys |-> keys, vals |-> vals]

Tok(t) == [tok |-> t]
StrTok(s) == [tok |-> "string", v |-> s]

RECURSIVE json_dumps(_)
RECURSIVE dumps_members(_, _)
\* the members of the dict d from the i-th on, as JSON text
dumps_members(d, i) ==
    IF i > Len(d.keys) THEN <<>>
    ELSE (IF i > 1 THEN <<Tok(",")>> ELSE <<>>)
            \o <<StrTok(d.keys[i]), Tok(":")>> \o json_dumps(d.vals[i])
            \o dumps_members(d, i + 1)

\* json.dumps
json_dumps(value) ==
    CASE value.py = "None" -> <<Tok("null")>>
      [] value.py = "bool" -> <<Tok(IF value.v THEN "true" ELSE "false")>>
      [] value.py = "str" -> <<StrTok(value.v)>>
      [] value.py = "dict" -> <<Tok("{")>> \o dumps_members(value, 1) \o <<Tok("}")>>

RECURSIVE parse_value(_, _)
RECURSIVE parse_members(_, _, _, _)
\* the members of an object from token i on, up to its closing brace
parse_members(text, i, keys, vals) ==
    IF text[i].tok = "}" THEN [value |-> PyDict(keys, vals), next |-> i + 1]
    ELSE IF text[i].tok = "," THEN parse_members(text, i + 1, keys, vals)
    ELSE LET member == parse_value(text, i + 2)
         IN  parse_members(text, member.next, Append(keys, text[i].v),
                           Append(vals, member.value))

\* the JSON value that starts at token i, and the index after it
parse_value(text, i) ==
    CASE text[i].tok = "null" -> [value |-> PyNone, next |-> i + 1]
      [] text[i].tok = "true" -> [value |-> PyBool(TRUE), next |-> i + 1]
      [] text[i].tok = "false" -> [value |-> PyBool(FALSE), next |-> i + 1]
      [] text[i].tok = "string" -> [value |-> PyStr(text[i].v), next |-> i + 1]
      [] text[i].tok = "{" -> parse_members(text, i + 1, <<>>, <<>>)

\* json.loads
json_loads(text) == parse_value(text, 1).value

\* the preview pages t.me can serve for a channel: a page that is no channel
\* (no "Preview channel" context link), and channel pages
PreviewPages(channel) ==
    {[is_channel |-> FALSE],
     [is_channel |-> TRUE, title |-> HeaderFor(channel).title,
      subscribers |-> "2 subscribers", verified |-> FALSE, description |-> ""],
     [is_channel |-> TRUE, title |-> HeaderFor(channel).title,
      subscribers |-> "2 subscribers", verified |-> TRUE, description |-> "about"]}

PreviewAnswers(channel) ==
    {[kind |-> "status"], [kind |-> "error"], [kind |-> "empty"], [kind |-> "malformed"]}
        \cup {[kind |-> "page", page |-> p] : p \in PreviewPages(channel)}

\* Channel.get
Channel_get(page) ==
    IF ~page.is_channel THEN PyNone
    ELSE PyDict(<<"title", "subscribers", "is_verified">>
                    \o (IF page.description # "" THEN <<"description">> ELSE <<>>),
                <<PyStr(page.title), PyStr(page.subscribers), PyBool(page.verified)>>
                    \o (IF page.description # ""
                        THEN <<PyStr(page.description)>> ELSE <<>>))

\* Preview.get
Preview_get(page) ==
    LET channel == Channel_get(page)
    IN  IF channel = PyNone THEN PyNone ELSE PyDict(<<"channel">>, <<channel>>)

\* Request.preview
Request_preview(channel, answer) ==
    IF channel_refused(channel) THEN RespNone ELSE request(answer)

\* the cache_ttl defaults of Telegram.preview and Telegram.previews
preview_cache_ttl == 7200
previews_cache_ttl == 3600

\* what redis_client.get returns for a key without entry
NoEntry == <<>>

\* redis_client.get(cache_key) on the store
CacheEntry(store, channel) == IF channel \in DOMAIN store THEN store[channel].value ELSE NoEntry

\* a read that never counts as a hit
CacheHit_Never(cached_data) == FALSE

\* "if cached_data:"
CacheHit(cached_data) == cached_data # NoEntry

\* "Remove duplicates while preserving order": list(dict.fromkeys(channels))
unique_channels(channels) ==
    SeqFilterIdx(channels,
                 {i \in 1..Len(channels) : \A j \in 1..(i - 1) : channels[j] # channels[i]},
                 1)

NoFailures == {}

NewPreviewTask(channel, cache_ttl) ==
    [channel |-> channel, cache_ttl |-> cache_ttl, pc |-> "start",
     held |-> NoEntry, cached_data |-> NoEntry, fetched |-> FALSE, answer |-> RespNone,
     preview_data |-> PyNone, wrote |-> FALSE, failures |-> NoFailures, result |-> Empty,
     order |-> 0]

\* the place a task that ends now takes in the order of completion
completion_order(tasks) ==
    Cardinality({t \in 1..Len(tasks) : tasks[t].pc \in {"returned", "raised"}}) + 1

PreviewInit ==
    /\ preview_pc = "idle"
    /\ preview_call = NoCall
    /\ redis_client = "none"
    /\ redis_store = EmptyMap
    /\ preview_tasks = <<>>
    /\ preview_result = Empty
    /\ preview_status = NoStatus

\* a route builds a Telegram and calls preview(channel)
StartPreview(channel) ==
    /\ preview_pc = "idle"
    /\ preview_pc' = "running"
    /\ preview_call' = [op |-> "preview", channels |-> <<channel>>]
    /\ redis_client' = "none"
    /\ preview_tasks' = <<NewPreviewTask(channel, preview_cache_ttl)>>
    /\ UNCHANGED <<redis_store, preview_result, preview_status, facadeVars, feedVars, pureVars>>

\* previews(channels) on a new Telegram: one preview() per distinct channel
StartPreviews(channels) ==
    /\ preview_pc = "idle"
    /\ preview_pc' = "running"
    /\ preview_call' = [op |-> "previews", channels |-> channels]
    /\ redis_client' = "none"
    /\ preview_tasks' =
         [i \in 1..Len(unique_channels(channels)) |->
            NewPreviewTask(unique_channels(channels)[i], previews_cache_ttl)]
    /\ UNCHANGED <<redis_store, preview_result, preview_status, facadeVars, feedVars, pureVars>>

\* preview() up to its first suspension: _get_redis_client, which creates the
\* client when the Telegram has none.  redis.Redis.from_url(settings.REDIS_URL)
\* raises when the settings have no such URL or the URL is no redis URL; the
\* call is outside every try of preview.
PreviewBegin(t, created) ==
    /\ preview_pc \in {"running", "done"}
    /\ t \in 1..Len(preview_tasks)
    /\ preview_tasks[t].pc = "start"
    /\ IF redis_client = "ready" \/ created
       THEN /\ redis_client' = "ready"
            /\ preview_tasks' = [preview_tasks EXCEPT ![t].pc = "get"]
       ELSE /\ redis_client' = "none"
            /\ preview_tasks' =
                 [preview_tasks EXCEPT
                    ![t].pc = "raised",
                    ![t].held = CacheEntry(redis_store, preview_tasks[t].channel),
                    ![t].failures = {"client"},
                    ![t].result = Raised,
                    ![t].order = completion_order(preview_tasks)]
    /\ UNCHANGED <<preview_pc, preview_call, redis_store, preview_result, preview_status,
                   facadeVars, feedVars, pureVars>>

\* redis_client.get(cache_key) returns or raises: a hit returns
\* json.loads(cached_data); a miss or an exception goes on to the fetch
CacheGetDone(t, ok) ==
    /\ preview_pc \in {"running", "done"}
    /\ t \in 1..Len(preview_tasks)
    /\ preview_tasks[t].pc = "get"
    /\ LET task == preview_tasks[t]
           entry == CacheEntry(redis_store, task.channel)
       IN  preview_tasks' =
             [preview_tasks EXCEPT ![t] =
                IF ~ok
                THEN [task EXCEPT !.pc = "fetch", !.held = entry,
                                  !.failures = {"read"}]
                ELSE IF CacheHit(entry)
                THEN [task EXCEPT !.pc = "returned", !.held = entry,
                                  !.cached_data = entry,
                                  !.result = Value(json_loads(entry)),
                                  !.order = completion_order(preview_tasks)]
                ELSE [task EXCEPT !.pc = "fetch", !.held = entry,
                                  !.cached_data = entry]]
    /\ UNCHANGED <<preview_pc, preview_call, redis_client, redis_store, preview_result, preview_status,
                   facadeVars, feedVars, pureVars>>

\* Request().preview(channel) returns or raises; "if not response: return {}";
\* Preview(response).get() returns or raises
PreviewFetchDone(t, answer) ==
    /\ preview_pc \in {"running", "done"}
    /\ t \in 1..Len(preview_tasks)
    /\ preview_tasks[t].pc = "fetch"
    /\ LET task == preview_tasks[t]
           response == Request_preview(task.channel, answer)
           fetched == [task EXCEPT !.fetched = TRUE, !.answer = response]
           ended == [fetched EXCEPT !.order = completion_order(preview_tasks)]
       IN  preview_tasks' =
             [preview_tasks EXCEPT ![t] =
                CASE response.kind \in {"error", "malformed"} ->
                        [ended EXCEPT !.pc = "raised", !.result = Raised]
                  [] response.kind = "none" ->
                        [ended EXCEPT !.pc = "returned", !.result = Empty]
                  [] response.kind = "page" ->
                        [fetched EXCEPT !.pc = "set",
                                        !.preview_data = Preview_get(response.page)]]
    /\ UNCHANGED <<preview_pc, preview_call, redis_client, redis_store, preview_result, preview_status,
                   facadeVars, feedVars, pureVars>>

\* redis_client.setex(cache_key, cache_ttl, json.dumps(preview_data)) returns
\* or raises; preview returns preview_data
CacheSetDone(t, ok) ==
    /\ preview_pc \in {"running", "done"}
    /\ t \in 1..Len(preview_tasks)
    /\ preview_tasks[t].pc = "set"
    /\ LET task == preview_tasks[t]
       IN  /\ redis_store' =
                IF ok
                THEN Put(redis_store, task.channel,
                         [value |-> json_dumps(task.preview_data), ttl |-> task.cache_ttl])
                ELSE redis_store
           /\ preview_tasks' =
                [preview_tasks EXCEPT ![t] =
                    [task EXCEPT !.pc = "returned", !.wrote = TRUE,
                                 !.failures = IF ok THEN @ ELSE @ \cup {"write"},
                                 !.result = Value(task.preview_data),
                                 !.order = completion_order(preview_tasks)]]
    /\ UNCHANGED <<preview_pc, preview_call, redis_client, preview_result, preview_status,
                   facadeVars, feedVars, pureVars>>

\* the store drops an entry whose time to live has run out
Expire(channel) ==
    /\ channel \in DOMAIN redis_store
    /\ redis_store' = [k \in DOMAIN redis_store \ {channel} |-> redis_store[k]]
    /\ UNCHANGED <<preview_pc, preview_call, redis_client, preview_tasks, preview_result, preview_status,
                   facadeVars, feedVars, pureVars>>

\* the caller of preview() has its value or its exception
PreviewReturn ==
    /\ preview_pc = "running"
    /\ preview_call.op = "preview"
    /\ preview_tasks[1].pc \in {"returned", "raised"}
    /\ preview_result' = preview_tasks[1].result
    /\ preview_status' \in route_status("preview", preview_result')
    /\ preview_pc' = "done"
    /\ UNCHANGED <<preview_call, redis_client, redis_store, preview_tasks,
                   facadeVars, feedVars, pureVars>>

\* a zip with the results in the order the tasks completed in
zip_results_AsCompleted(tasks) ==
    [t \in 1..Len(tasks) |->
        [channel |-> tasks[t].channel,
         preview |-> tasks[CHOOSE u \in 1..Len(tasks) : tasks[u].order = t].result]]

\* dict(zip(unique_channels, results)): gather returns the results in the
\* order of the tasks it was given, whatever the order they completed in
zip_results(tasks) ==
    [t \in 1..Len(tasks) |->
        [channel |-> tasks[t].channel, preview |-> tasks[t].result]]

\* asyncio.gather(*tasks) of previews: the first exception of a task reaches
\* the caller while the other tasks run on; without one, the results are
\* zipped with the distinct channels once all tasks have returned
PreviewsReturn ==
    /\ preview_pc = "running"
    /\ preview_call.op = "previews"
    /\ \/ /\ \E t \in 1..Len(preview_tasks) : preview_tasks[t].pc = "raised"
          /\ preview_result' = Raised
       \/ /\ \A t \in 1..Len(preview_tasks) : preview_tasks[t].pc = "returned"
          /\ preview_result' = Value(zip_results(preview_tasks))
    /\ preview_pc' = "done"
    /\ UNCHANGED <<preview_call, redis_client, redis_store, preview_tasks, preview_status,
                   facadeVars, feedVars, pureVars>>

\* the response is sent and the Telegram of the request dropped; the cache
\* keeps its entries
PreviewFinish ==
    /\ preview_pc = "done"
    /\ preview_pc' = "idle"
    /\ preview_call' = NoCall
    /\ redis_client' = "none"
    /\ preview_tasks' = <<>>
    /\ preview_result' = Empty
    /\ preview_status' = NoStatus
    /\ UNCHANGED <<redis_store, facadeVars, feedVars, pureVars>>

\* the channels previews are asked for: two channels and a name Request rejects
PreviewNames == {NameAbcd, NameWxyz, NameShort}

\* the lists previews is called with: up to MaxPreviews distinct channels,
\* and one repetition
PreviewLists ==
    {channels \in SeqsUpTo(PreviewNames, MaxPreviews + 1) :
        Cardinality(Range(channels)) <= MaxPreviews}

PreviewNext ==
    \/ \E channel \in PreviewNames : StartPreview(channel)
    \/ \E channels \in PreviewLists : StartPreviews(channels)
    \/ \E t \in 1..Len(preview_tasks), created \in BOOLEAN : PreviewBegin(t, created)
    \/ \E t \in 1..Len(preview_tasks), ok \in BOOLEAN : CacheGetDone(t, ok)
    \/ \E t \in 1..Len(preview_tasks) :
         \E answer \in PreviewAnswers(preview_tasks[t].channel) : PreviewFetchDone(t, answer)
    \/ \E t \in 1..Len(preview_tasks), ok \in BOOLEAN : CacheSetDone(t, ok)
    \/ \E channel \in DOMAIN redis_store : Expire(channel)
    \/ PreviewReturn
    \/ PreviewsReturn
    \/ PreviewFinish

(***************************************************************************)
(* Functions without state: validators and parsers.  A call takes its      *)
(* input from a bounded set and leaves the input and the result in         *)
(* pure_call until the caller has them.                                    *)
(***************************************************************************)
NoPureCall == [fn |-> "none"]

PureInit == pure_call = NoPureCall

PureReturn ==
    /\ pure_call # NoPureCall
    /\ pure_call' = NoPureCall
    /\ UNCHANGED <<facadeVars, feedVars, previewVars>>

(***************************************************************************)
(* FeedRequest.validate_channels (app/routes/v1/feed.py).                  *)
(***************************************************************************)
RECURSIVE lstrip(_)
lstrip(s) == IF s # <<>> /\ Head(s) = " " THEN lstrip(Tail(s)) ELSE s

RECURSIVE rstrip(_)
rstrip(s) == IF s # <<>> /\ s[Len(s)] = " " THEN rstrip(SubSeq(s, 1, Len(s) - 1)) ELSE s

\* str.strip()
strip(s) == rstrip(lstrip(s))

Accepted(cleaned) == [accepted |-> TRUE, cleaned |-> cleaned]
Rejected(error) == [accepted |-> FALSE, error |-> error]

\* the checks of the validator on one stripped name, in their order
channel_error(channel) ==
    IF channel = <<>> THEN "empty"
    ELSE IF Len(channel) < 3 \/ Len(channel) > 32 THEN "length"
    ELSE IF channel[1] = "_" THEN "underscore"
    ELSE IF \E i \in 1..Len(channel) : channel[i] \notin Letters \cup Digits \cup {"_"}
         THEN "characters"
    ELSE "ok"

\* FeedRequest.validate_channels: the cleaned list, or the ValueError raised
validate_channels(v) ==
    IF ~(1 <= Len(v) /\ Len(v) <= 100) THEN Rejected("count")
    ELSE LET cleaned == [i \in 1..Len(v) |-> strip(v[i])]
             bad == {i \in 1..Len(v) : channel_error(cleaned[i]) # "ok"}
         IN  IF bad = {} THEN Accepted(cleaned)
             ELSE Rejected(channel_error(cleaned[CHOOSE i \in bad : \A j \in bad : i <= j]))

MaxListed == 2

NameUnderscore == <<"_", "a", "b", "c">>
NameSpaced == <<" ", "a", "b", "c", "d", " ">>
NameBlank == <<" ">>
NameOfLen(n) == [i \in 1..n |-> "a"]

\* the names a feed request lists
FeedRequestNames ==
    {NameAbcd, NameThree, NameShort, NameBang, NameDash, NameDigit, NameUnderscore,
     NameSpaced, NameBlank, <<>>, NameOfLen(32), NameOfLen(33)}

\* the channel lists of feed requests: short ones, and lists of 100 and 101
FeedRequests ==
    SeqsUpTo(FeedRequestNames, MaxListed)
        \cup {[i \in 1..100 |-> NameAbcd], [i \in 1..101 |-> NameAbcd]}

\* pydantic validates the body of POST /feed before create_feed runs
ValidateFeedRequest(channels) ==
    /\ pure_call = NoPureCall
    /\ pure_call' = [fn |-> "validate_channels", v |-> channels,
                     result |-> validate_channels(channels)]
    /\ UNCHANGED <<facadeVars, feedVars, previewVars>>

\* the strings parse_numeric_value is called with
NumericInputs ==
    {<<>>, <<"1", "2">>, <<"1", " ", "2", "0", "0">>, <<"1", ".", "2", "K">>,
     <<"3", "M">>, <<"5", "k">>, <<"1", ".", "5", "m">>, <<"k">>, <<"1", "k", "2">>,
     <<"b", "o", "g", "u", "s">>, <<"n", "a", "n", "k">>, <<"1", ".", "2", ".", "3", "k">>,
     <<"i", "n", "f">>, <<"i", "n", "f", "k">>, <<"i", "n", "f", " ", "m">>}

NumericDefaults == {0, 7}

\* a call of PostDataPreparer.parse_numeric_value
ParseNumeric(value_str, default) ==
    /\ pure_call = NoPureCall
    /\ pure_call' = [fn |-> "parse_numeric_value", value_str |-> value_str,
                     default |-> default,
                     result |-> IF parse_numeric_raises(value_str) THEN Raised
                                ELSE Value(parse_numeric_value(value_str, default))]
    /\ UNCHANGED <<facadeVars, feedVars, previewVars>>

(***************************************************************************)
(* Media parser (app/telegram/parser/types/media.py).  A media element is  *)
(* what the selectors of its processor find in it.                         *)
(***************************************************************************)
PyInt(n) == [py |-> "int", v |-> n]

\* d[k] and "k in d" for a dict of the program
PyHas(d, k) == \E i \in 1..Len(d.keys) : d.keys[i] = k
PyGet(d, k) == d.vals[CHOOSE i \in 1..Len(d.keys) : d.keys[i] = k]

Absent == [present |-> FALSE]

\* the styles of a thumb or photo element: with and without a
\* background-image
StyleBackground == <<"b", "g", ":", "u">>
StyleOther == <<"c", "o", "l", "o", "r">>

\* Utils.background_extr: the url in the style, or None
background_extr(style) ==
    IF style = StyleBackground THEN PyStr("thumb.jpg") ELSE PyNone

RECURSIVE split_from(_, _, _, _)
\* the parts of s from position i on, part being the one under way
split_from(s, sep, i, part) ==
    IF i > Len(s) THEN <<part>>
    ELSE IF s[i] = sep THEN <<part>> \o split_from(s, sep, i + 1, <<>>)
    ELSE split_from(s, sep, i + 1, Append(part, s[i]))

\* str.split(sep)
split(s, sep) == split_from(s, sep, 1, <<>>)

\* Media.__duration: the seconds of "MM:SS" or "HH:MM:SS", or None
duration(text) ==
    LET parts == split(text, ":")
    IN  IF text = <<>> THEN PyNone
        ELSE IF \E i \in 1..Len(parts) : ~IsDigits(parts[i]) THEN PyNone   \* ValueError
        ELSE IF Len(parts) = 2
             THEN PyInt(DigitsToInt(parts[1]) * 60 + DigitsToInt(parts[2]))
        ELSE IF Len(parts) = 3
             THEN PyInt(DigitsToInt(parts[1]) * 3600 + DigitsToInt(parts[2]) * 60
                            + DigitsToInt(parts[3]))
        ELSE PyNone

\* Media._parse_duration
parse_duration(duration_text) ==
    IF duration_text = <<>> THEN PyNone
    ELSE PyDict(<<"formatted", "raw">>, <<PyStr(duration_text), duration(duration_text)>>)

\* the body Media.video builds, given the type it ends with
video_body(match, type) ==
    LET video_available == match.video.present /\ match.video.src # ""
    IN  PyDict(<<"url", "thumb", "type">>
                   \o (IF ~video_available THEN <<"available">> ELSE <<>>)
                   \o (IF match.duration.present THEN <<"duration">> ELSE <<>>),
               <<IF video_available THEN PyStr(match.video.src) ELSE PyNone,
                 IF match.thumb.present THEN background_extr(match.thumb.style) ELSE PyNone,
                 PyStr(type)>>
                   \o (IF ~video_available THEN <<PyBool(FALSE)>> ELSE <<>>)
                   \o (IF match.duration.present
                       THEN <<parse_duration(match.duration.text)>> ELSE <<>>))

\* a video parser that never reclassifies
Media_video_KeepType(match) == video_body(match, "video")

\* Media.video
Media_video(match) ==
    video_body(match, IF match.duration.present THEN "video" ELSE "gif")

\* Media.image
Media_image(match) ==
    IF ~match.style.present THEN PyNone
    ELSE PyDict(<<"url", "type">>, <<background_extr(match.style.value), PyStr("image")>>)

\* Media._process_media_element, for the classes of photo and video
process_media_element(element) ==
    IF element.class = "tgme_widget_message_video_player" THEN Media_video(element)
    ELSE Media_image(element)

\* Media.extract_media: the data of the elements that gave some
extract_media(media) ==
    LET data == [i \in 1..Len(media) |-> process_media_element(media[i])]
    IN  SeqFilterIdx(data, {i \in 1..Len(media) : data[i] # PyNone}, 1)

MaxMedia == 2

DurationTexts == {<<>>, <<"0", ":", "1", "5">>, <<"1", ":", "0", "2", ":", "0", "3">>,
                  <<"x", ":", "y">>, <<"5">>, <<"1", ":", "2", ":", "3", ":", "4">>}

VideoElements ==
    {[class |-> "tgme_widget_message_video_player", video |-> v, thumb |-> t,
      duration |-> d] :
        v \in {Absent, [present |-> TRUE, src |-> ""], [present |-> TRUE, src |-> "v.mp4"]},
        t \in {Absent, [present |-> TRUE, style |-> StyleBackground],
                       [present |-> TRUE, style |-> StyleOther]},
        d \in {Absent} \cup {[present |-> TRUE, text |-> x] : x \in DurationTexts}}

PhotoElements ==
    {[class |-> "tgme_widget_message_photo_wrap", style |-> st] :
        st \in {Absent, [present |-> TRUE, value |-> StyleBackground]}}

\* Media(group).extract_media() on the media elements of a message
ExtractMedia(media) ==
    /\ pure_call = NoPureCall
    /\ pure_call' = [fn |-> "extract_media", media |-> media,
                     result |-> extract_media(media)]
    /\ UNCHANGED <<facadeVars, feedVars, previewVars>>

(***************************************************************************)
(* EntitiesParser (app/telegram/parser/types/entities.py).  The html of a  *)
(* message text is a sequence of tokens: a character of text or a whole    *)
(* tag.  The attribute values of the tags hold none of the characters      *)
(* '#', '"', '<' and '>', and the text holds no '<' and no '>' (they are   *)
(* escaped in html), so a regular expression of the parser meets a tag as  *)
(* a whole.                                                                *)
(***************************************************************************)
Ch(c) == [kind |-> "char", c |-> c]
Open(name) == [kind |-> "open", name |-> name]
Close(name) == [kind |-> "close", name |-> name]
Br == [kind |-> "br"]
\* <a href="..." [onclick="..."]>
Anchor(href, onclick) == [kind |-> "a", href |-> href, onclick |-> onclick]
\* <i class="emoji" style="background-image:url('...')">
EmojiTag(url) == [kind |-> "emoji", url |-> url]
\* <tg-emoji emoji-id="...">
TgEmoji == [kind |-> "tg-emoji"]

IsTag(t) == t.kind # "char"

\* re.sub(r"<br\s?/?>", "\n", html_body)
html_text(html_body) ==
    [i \in 1..Len(html_body) |-> IF html_body[i] = Br THEN Ch("\n") ELSE html_body[i]]

\* re.sub(r"<[^>]+>", "", html_text), as a sequence of characters
text_only(html) ==
    LET chars == SelectSeq(html, LAMBDA t : ~IsTag(t))
    IN  [i \in 1..Len(chars) |-> chars[i].c]

\* \w
IsWord(t) == t.kind = "char" /\ t.c \in Letters \cup Digits \cup {"_"}

Least(S) == CHOOSE x \in S : \A y \in S : x <= y
Greatest(S) == CHOOSE x \in S : \A y \in S : x >= y

\* the first position of S, 0 when there is none: where a lazy quantifier
\* stops once the rest of its pattern matches
LazyEnd(S) == IF S = {} THEN 0 ELSE Least(S)

\* [^<]*tag after position j: the next tag after j is this one
FollowedBy(html, j, tag) ==
    \E k \in (j + 1)..Len(html) :
        /\ html[k] = tag
        /\ \A m \in (j + 1)..(k - 1) : ~IsTag(html[m])

\* the tag names of patterns[1..6]
WrapTags == <<"b", "i", "u", "code", "s", "tg-spoiler">>

\* The last position of the match of patterns[p] that starts at position i,
\* 0 when patterns[p] does not match there.
pattern_end(html, i, p) ==
    LET n == Len(html)
    IN  CASE p = 0 ->
               \* (#\w+)
               IF html[i] = Ch("#") /\ i < n /\ IsWord(html[i + 1])
               THEN Greatest({e \in (i + 1)..n : \A m \in (i + 1)..e : IsWord(html[m])})
               ELSE 0
          [] p \in 1..6 ->
               \* <b>(.+?)</b>(?![^<]*</i>), <i>(.+?)</i>, ...
               IF html[i] = Open(WrapTags[p])
               THEN LazyEnd({j \in (i + 2)..n :
                               /\ html[j] = Close(WrapTags[p])
                               /\ p = 1 => ~FollowedBy(html, j, Close("i"))})
               ELSE 0
          [] p = 7 ->
               \* <i class="emoji" style="...url('(.*?)')"><b>(.*?)</b></i>(?![^<]*</tg-emoji>)
               IF html[i].kind = "emoji" /\ i < n /\ html[i + 1] = Open("b")
               THEN LazyEnd({j \in (i + 3)..n :
                               /\ html[j - 1] = Close("b")
                               /\ html[j] = Close("i")
                               /\ ~FollowedBy(html, j, Close("tg-emoji"))})
               ELSE 0
          [] p = 8 ->
               \* <a ... href="([^"]*)" ... onclick="..." ...>(.*?)</a>
               IF html[i].kind = "a" /\ html[i].onclick
               THEN LazyEnd({j \in (i + 1)..n : html[j] = Close("a")})
               ELSE 0
          [] p = 9 ->
               \* <a ... href="(?!(?:.*#))(.*?)" ...>(.*?)</a>: with DOTALL the
               \* lookahead runs to the end of the html
               IF html[i].kind = "a" /\ \A m \in (i + 1)..n : html[m] # Ch("#")
               THEN LazyEnd({j \in (i + 1)..n : html[j] = Close("a")})
               ELSE 0
          [] p = 10 ->
               \* <tg-emoji.*?><i class="emoji" style="...url('(.*?)')"><b>(.*?)</b></i></tg-emoji>
               IF html[i] = TgEmoji /\ i + 1 < n /\ html[i + 1].kind = "emoji"
                  /\ html[i + 2] = Open("b")
               THEN LazyEnd({j \in (i + 5)..n :
                               /\ html[j - 2] = Close("b")
                               /\ html[j - 1] = Close("i")
                               /\ html[j] = Close("tg-emoji")})
               ELSE 0

Patterns == 0..10

\* combined_pattern at position i: the first alternative that matches
match_at(html, i) ==
    LET p == Least({q \in Patterns : pattern_end(html, i, q) # 0})
    IN  [pattern |-> p, first |-> i, last |-> pattern_end(html, i, p)]

\* list(re.finditer(self.combined_pattern, self.html_text)) from position pos
RECURSIVE finditer(_, _)
finditer(html, pos) ==
    LET starts == {i \in pos..Len(html) : \E q \in Patterns : pattern_end(html, i, q) # 0}
    IN  IF starts = {} THEN <<>>
        ELSE LET match == match_at(html, Least(starts))
             IN  <<match>> \o finditer(html, match.last + 1)

\* match.group()
group(html, match) == SubSeq(html, match.first, match.last)

\* match.groups(), by index, without the groups that took no part (None)
groups(html, match) ==
    LET whole == group(html, match)
        p == match.pattern
    IN  CASE p = 0 -> (0 :> whole) @@ (1 :> whole)
          [] p \in 1..6 ->
               (2 * p :> whole) @@
               (2 * p + 1 :> SubSeq(html, match.first + 1, match.last - 1))
          [] p = 7 ->
               (14 :> whole) @@ (15 :> html[match.first].url) @@
               (16 :> SubSeq(html, match.first + 2, match.last - 2))
          [] p = 8 ->
               (17 :> whole) @@ (18 :> html[match.first].href) @@
               (19 :> SubSeq(html, match.first + 1, match.last - 1))
          [] p = 9 ->
               (20 :> whole) @@ (21 :> html[match.first].href) @@
               (22 :> SubSeq(html, match.first + 1, match.last - 1))
          [] p = 10 ->
               (23 :> whole) @@ (24 :> html[match.first + 1].url) @@
               (25 :> SubSeq(html, match.first + 3, match.last - 3))

idx_map == {1, 3, 5, 7, 9, 11, 13, 14, 17, 20, 23}

entity_depth_map == ("text_link" :> 0) @@ ("emoji" :> 1) @@ ("animoji" :> 2)

NoType == "None"

entity_types ==
    <<"hashtag", "bold", "italic", "underline", "code", "strikethrough", "spoiler",
      "emoji", "text_link", NoType, "url", "animoji">>

\* entity_types[idx // 2], None on IndexError
message_type(idx) ==
    IF (idx \div 2) + 1 \in DOMAIN entity_types THEN entity_types[(idx \div 2) + 1]
    ELSE NoType

NoUrl == <<>>

\* _identify_entity_type: the first group that is truthy and in idx_map
identify_entity_type(html, match) ==
    LET g == groups(html, match)
        hits == {idx \in DOMAIN g : g[idx] # <<>> /\ idx \in idx_map}
    IN  IF hits = {} THEN [type |-> NoType, url |-> NoUrl, depth |-> 1]
        ELSE LET entity_type == message_type(Least(hits))
             IN  IF entity_type \in DOMAIN entity_depth_map
                 THEN [type |-> entity_type, url |-> g[Least(hits) + 1],
                       depth |-> 1 + entity_depth_map[entity_type]]
                 ELSE [type |-> entity_type, url |-> NoUrl, depth |-> 1]

\* match.group().strip("<>").split(">")[-abs(depth)].split("<")[0]: the text
\* between two tags, in front of the depth-th tag from the end of the match;
\* the whole match when it has no tag.  A pattern of depth d has more than
\* d tags.
extract_content(html, match, depth) ==
    LET tags == {k \in match.first..match.last : IsTag(html[k])}
        before(k) == {j \in tags : j < k}
        stop == IF tags = {} THEN match.last + 1
                ELSE CHOOSE k \in tags : Cardinality({j \in tags : j > k}) = depth - 1
        start == IF before(stop) = {} THEN match.first ELSE Greatest(before(stop)) + 1
    IN  [i \in 1..(stop - start) |-> html[start + i - 1].c]

\* a search that starts at the beginning of the text whatever the cursor
find_FromStart(text, sub, start) ==
    LazyEnd({k + 1 : k \in {j \in 0..(Len(text) - Len(sub)) :
                                SubSeq(text, j + 1, j + Len(sub)) = sub}}) - 1

\* str.find(sub, start): the index from 0, -1 when sub is not found
find(text, sub, start) ==
    LET from == IF start < 0 THEN Max(Len(text) + start, 0) ELSE start
    IN  LazyEnd({k + 1 : k \in {j \in from..(Len(text) - Len(sub)) :
                                    SubSeq(text, j + 1, j + Len(sub)) = sub}}) - 1

\* _create_entity_dict: emoji and animoji get the scheme in front of the url
HttpsScheme == <<"https:">>

create_entity_dict(entity_info, length) ==
    IF entity_info.url # NoUrl
    THEN [offset |-> entity_info.text_start, length |-> length, type |-> entity_info.type,
          url |-> IF entity_info.type \in {"emoji", "animoji"}
                  THEN HttpsScheme \o entity_info.url ELSE entity_info.url]
    ELSE [offset |-> entity_info.text_start, length |-> length, type |-> entity_info.type]

\* the loop of parse_message over matches[i..], with the entities and the
\* offset it has so far
RECURSIVE parse_from(_, _, _, _, _)
parse_from(html, matches, i, offset, entities) ==
    IF i > Len(matches) THEN entities
    ELSE LET found == identify_entity_type(html, matches[i])
         IN  IF found.type = NoType
             THEN parse_from(html, matches, i + 1, offset, entities)
             ELSE LET content == extract_content(html, matches[i], found.depth)
                      text_start == find(text_only(html), content, offset)
                      entity == create_entity_dict(
                                    [type |-> found.type, url |-> found.url,
                                     text_start |-> text_start], Len(content))
                  IN  parse_from(html, matches, i + 1, text_start + Len(content),
                                 Append(entities, entity))

parse_message(html_body) ==
    LET html == html_text(html_body)
    IN  parse_from(html, finditer(html, 1), 1, 0, <<>>)

\* Fragments of message html built from known entities
Text(s) == [i \in 1..Len(s) |-> Ch(s[i])]
Wrap(name, inner) == <<Open(name)>> \o inner \o <<Close(name)>>

EmojiSrc == <<"//", "telegram.org/img/emoji/40/F09F9880.png">>
LinkHref == <<"https://", "e.com/">>

Emoji == <<EmojiTag(EmojiSrc)>> \o Wrap("b", Text(<<"E">>)) \o <<Close("i")>>
Animoji == <<TgEmoji>> \o Emoji \o <<Close("tg-emoji")>>
Link(onclick) == <<Anchor(LinkHref, onclick)>> \o Text(<<"a">>) \o <<Close("a")>>

SimpleWraps == {Wrap(name, Text(s)) : name \in Range(WrapTags), s \in {<<"a">>, <<"a", "b">>}}

\* a tag and a different tag of bold or italic inside it
NestedTags == {pair \in Range(WrapTags) \X {"b", "i"} : pair[1] # pair[2]}

NestedWraps ==
    UNION {{Wrap(outer, Wrap(inner, Text(<<"a">>))),
            Wrap(outer, Text(<<"a">>) \o Wrap(inner, Text(<<"b">>))),
            Wrap(outer, Wrap(inner, Text(<<"a">>)) \o Text(<<"b">>))} :
                <<outer, inner>> \in NestedTags}

\* two tags that overlap: <b>a<i>b</b>c</i>
OverlappingWraps ==
    {<<Open(outer)>> \o Text(<<"a">>) \o <<Open(inner)>> \o Text(<<"b">>) \o
     <<Close(outer)>> \o Text(<<"c">>) \o <<Close(inner)>> :
        <<outer, inner>> \in {pair \in NestedTags : pair[1] \in {"b", "i"}}}

Pieces ==
    {Text(<<"a">>), Text(<<" ">>), Text(<<"#", "a">>), <<Br>>, Emoji, Animoji,
     Link(TRUE), Link(FALSE)}
    \cup SimpleWraps \cup NestedWraps \cup OverlappingWraps

MaxPieces == 2

RECURSIVE Concat(_)
Concat(pieces) == IF pieces = <<>> THEN <<>> ELSE Head(pieces) \o Concat(Tail(pieces))

Fragments == {Concat(pieces) : pieces \in SeqsUpTo(Pieces, MaxPieces)}

\* EntitiesParser(html_body).parse_message(); matches is the local list the
\* entities are made from, one entity for each match
ParseMessage(html_body) ==
    /\ pure_call = NoPureCall
    /\ pure_call' = [fn |-> "parse_message", html_body |-> html_body,
                     matches |-> finditer(html_text(html_body), 1),
                     result |-> parse_message(html_body)]
    /\ UNCHANGED <<facadeVars, feedVars, previewVars>>

(***************************************************************************)
(* clean_json_of_post (app/utils/json.py).  A document is a value of the   *)
(* program: a dict with its keys in order, a list, a string, a number,     *)
(* None or a pydantic HttpUrl.  No value of the model makes process_node   *)
(* raise.                                                                  *)
(***************************************************************************)
PyList(items) == [py |-> "list", items |-> items]
HttpUrl(s) == [py |-> "HttpUrl", v |-> s]

keys_to_remove ==
    {"id", "meta", "url", "thumb", "unix", "cover", "to_message", "raw", "waves",
     "entities", "avatar", "view"}

valid_media_types == {"image", "video", "roundvideo", "gif", "sticker", "voice"}

\* dict.get(k)
PyGetOr(d, k) == IF PyHas(d, k) THEN PyGet(d, k) ELSE PyNone

\* del d[k]
PyDel(d, k) ==
    LET keep == {i \in 1..Len(d.keys) : d.keys[i] # k}
    IN  PyDict(SeqFilterIdx(d.keys, keep, 1), SeqFilterIdx(d.vals, keep, 1))

\* what the loop over value appends for one media_item: nothing or one dict
processed_media_item(media_item) ==
    IF media_item.py # "dict" THEN <<>>
    ELSE LET media_type == PyGetOr(media_item, "type")
         IN  IF media_type.py # "str" \/ media_type.v \notin valid_media_types THEN <<>>
             ELSE LET media_url == IF media_type.v \in {"image", "voice"}
                                   THEN PyGetOr(media_item, "url")
                                   ELSE PyGetOr(media_item, "thumb")
                  IN  IF media_url.py \in {"HttpUrl", "str"}
                      THEN <<PyDict(<<"url", "type">>, <<PyStr(media_url.v), media_type>>)>>
                      ELSE <<>>

RECURSIVE processed_media(_, _)
processed_media(value, i) ==
    IF i > Len(value) THEN <<>>
    ELSE processed_media_item(value[i]) \o processed_media(value, i + 1)

RECURSIVE process_node(_, _)
\* what process_node stores under key for value
process_value(key, value, media_meta) ==
    IF value.py = "dict" /\ PyHas(value, "string") /\ PyHas(value, "html")
       /\ Len(value.keys) = 2
    THEN PyGet(value, "string")
    ELSE IF value.py = "dict" /\ PyHas(value, "string")
    THEN process_node(PyDel(value, "html"), media_meta)
    ELSE IF media_meta /\ key = "media" /\ value.py = "list"
    THEN PyList(processed_media(value.items, 1))
    ELSE process_node(value, media_meta)

process_node(node, media_meta) ==
    IF node.py = "list"
    THEN PyList([i \in 1..Len(node.items) |-> process_node(node.items[i], media_meta)])
    ELSE IF node.py = "dict"
    THEN LET keep == {i \in 1..Len(node.keys) : node.keys[i] \notin keys_to_remove}
             values == [i \in 1..Len(node.keys) |->
                          IF i \in keep
                          THEN process_value(node.keys[i], node.vals[i], media_meta)
                          ELSE PyNone]
         IN  PyDict(SeqFilterIdx(node.keys, keep, 1), SeqFilterIdx(values, keep, 1))
    ELSE node

EmptyDict == PyDict(<<>>, <<>>)

clean_json_of_post(json_data, media_meta) ==
    IF json_data.py # "dict" \/ json_data = EmptyDict THEN EmptyDict
    ELSE process_node(json_data, media_meta)

\* Post documents: the text, the media and the footer of a message
RichText(string, html) == PyDict(<<"string", "html">>, <<PyStr(string), PyStr(html)>>)

DocTexts ==
    {RichText("hi", "<b>hi</b>"),
     PyDict(<<"string", "html", "entities">>,
            <<PyStr("hi"), PyStr("<b>hi</b>"), PyList(<<>>)>>)}

DocMedia ==
    {PyDict(<<"url", "type">>, <<PyStr("u.jpg"), PyStr("image")>>),
     PyDict(<<"url", "type">>, <<HttpUrl("u.jpg"), PyStr("image")>>),
     PyDict(<<"url", "thumb", "type", "duration">>,
            <<PyStr("v.mp4"), PyStr("t.jpg"), PyStr("video"),
              PyDict(<<"formatted", "raw">>, <<PyStr("0:15"), PyInt(15)>>)>>),
     PyDict(<<"url", "type">>, <<PyStr("v.mp4"), PyStr("gif")>>),
     PyDict(<<"url", "waves", "type">>, <<PyStr("a.ogg"), PyStr("x"), PyStr("voice")>>),
     PyDict(<<"name", "type">>, <<PyStr("q"), PyStr("poll")>>),
     PyStr("junk")}

DocFooter ==
    PyDict(<<"views", "date", "author">>,
           <<PyStr("1K"),
             PyDict(<<"string", "unix">>, <<PyStr("d"), PyInt(1)>>),
             PyDict(<<"string", "html", "url">>, <<PyStr("x"), PyStr("y"), PyStr("z")>>)>>)

MaxDocMedia == 2

PostDocuments ==
    {PyNone, EmptyDict, PyList(<<DocFooter>>)} \cup
    {PyDict(<<"id", "content", "footer">>,
            <<PyInt(5), PyDict(<<"text", "media">>, <<text, PyList(media)>>), DocFooter>>) :
        text \in DocTexts, media \in SeqsUpTo(DocMedia, MaxDocMedia)}

CleanJson(json_data, media_meta) ==
    /\ pure_call = NoPureCall
    /\ pure_call' = [fn |-> "clean_json_of_post", json_data |-> json_data,
                     media_meta |-> media_meta,
                     result |-> clean_json_of_post(json_data, media_meta)]
    /\ UNCHANGED <<facadeVars, feedVars, previewVars>>


(***************************************************************************)
(* The content signature of one post: parse_content_type_single on the     *)
(* content that Post.get built from a message node.                        *)
(***************************************************************************)
MediaTypes == {"image", "video", "gif", "sticker", "voice", "roundvideo"}

SignatureNodes ==
    {Node(1, text, media, poll, <<>>, <<"7">>, FALSE, 1) :
        text \in {NoText, TextOf(<<"h", "i">>)},
        media \in SeqsUpTo(MediaTypes, MaxMedia),
        poll \in BOOLEAN}

ParseContentType(node) ==
    /\ pure_call = NoPureCall
    /\ pure_call' = [fn |-> "parse_content_type_single", node |-> node,
                     result |-> parse_content_type_single(parse_content_fields(node))]
    /\ UNCHANGED <<facadeVars, feedVars, previewVars>>


(***************************************************************************)
(* Post.get on message nodes of unexpected shape.  A message carries, next *)
(* to what the sub-parsers read from it, whether its bubble has the        *)
(* elements that the parser dereferences without a test: the voters        *)
(* element of a poll (Post.poll) and the time element of the date          *)
(* (Post.footer).  css_first gives None for a missing element, and the     *)
(* attribute access on None raises AttributeError; Post.get, Body.get and  *)
(* Telegram.body have no handler for it.                                   *)
(***************************************************************************)
PollNode(id) == Node(id, NoText, <<>>, TRUE, <<>>, <<"7">>, FALSE, 1)

Shaped(node, voters, time) == [node |-> node, voters |-> voters, time |-> time]

\* Post.poll raises: buble.css_first(".tgme_widget_message_voters").text()
poll_raises(message) == message.node.poll /\ ~message.voters

\* Post.footer raises: buble.css_first(".tgme_widget_message_date > time").attributes
footer_raises(message) == ~message.time

message_raises(message) == poll_raises(message) \/ footer_raises(message)

\* Post.get(selector) on messages of any shape: the exception of a selected
\* message leaves the loop and the method
Post_get_shaped(messages, selector) ==
    IF \E i \in 1..Len(messages) :
          check_selector(messages[i].node.id, selector) /\ message_raises(messages[i])
    THEN Raised
    ELSE Value(Post_get([i \in 1..Len(messages) |-> messages[i].node], selector))

ShapedNodes(id) ==
    {Shaped(node, voters, time) :
        node \in {TextNode(id), PollNode(id)}, voters \in BOOLEAN, time \in BOOLEAN}

ShapedMessages ==
    {<<first>> : first \in ShapedNodes(1)} \cup
    {<<first, second>> : first \in ShapedNodes(1), second \in ShapedNodes(2)}

ParsePosts(messages, selector) ==
    /\ pure_call = NoPureCall
    /\ pure_call' = [fn |-> "Post.get", messages |-> messages, selector |-> selector,
                     result |-> Post_get_shaped(messages, selector)]
    /\ UNCHANGED <<facadeVars, feedVars, previewVars>>

PureNext ==
    \/ \E channels \in FeedRequests : ValidateFeedRequest(channels)
    \/ \E media \in SeqsUpTo(VideoElements \cup PhotoElements, MaxMedia) : ExtractMedia(media)
    \/ \E value_str \in NumericInputs, default \in NumericDefaults :
            ParseNumeric(value_str, default)
    \/ \E html_body \in Fragments : ParseMessage(html_body)
    \/ \E json_data \in PostDocuments, media_meta \in BOOLEAN : CleanJson(json_data, media_meta)
    \/ \E node \in SignatureNodes : ParseContentType(node)
    \/ \E messages \in ShapedMessages, selector \in {NoSelector, Selector(1)} :
            ParsePosts(messages, selector)
    \/ PureReturn

Init == FacadeInit /\ FeedInit /\ PreviewInit /\ PureInit
Next == FacadeNext
Spec == Init /\ [][Next]_vars

SpecFeed == Init /\ [][FeedNext]_vars

\* one preparer, called repeatedly
SpecBatch == Init /\ [][BatchNext]_vars

\* feed requests over long pages
SpecComments == Init /\ [][CommentsNext]_vars

SpecPreview == Init /\ [][PreviewNext]_vars

\* The four channel endpoints: the routes of body, more and post call the
\* facade, the route of preview calls Telegram().preview(channel).  The
\* requests share nothing but the cache of preview, so they are taken one
\* at a time.
RoutesNext ==
    \/ preview_pc = "idle" /\ FacadeCall
    \/ Return
    \/ \E channel \in PreviewNames : last_call = NoCall /\ StartPreview(channel)
    \/ \E t \in 1..Len(preview_tasks), created \in BOOLEAN : PreviewBegin(t, created)
    \/ \E t \in 1..Len(preview_tasks), ok \in BOOLEAN : CacheGetDone(t, ok)
    \/ \E t \in 1..Len(preview_tasks) :
         \E answer \in PreviewAnswers(preview_tasks[t].channel) : PreviewFetchDone(t, answer)
    \/ \E t \in 1..Len(preview_tasks), ok \in BOOLEAN : CacheSetDone(t, ok)
    \/ \E channel \in DOMAIN redis_store : Expire(channel)
    \/ PreviewReturn
    \/ PreviewFinish

SpecRoutes == Init /\ [][RoutesNext]_vars

SpecPure == Init /\ [][PureNext]_vars

\* The steps the event loop takes by itself once a request is in: every
\* fetch is bounded by the timeout of its wait_for, and a ready coroutine
\* runs.  (The arrival of a request is not forced.)
FeedProgress ==
    \/ \E name \in {n \in DOMAIN fetch_results : fetch_results[n] = Pending} :
         \E outcome \in FetchOutcomes(name) : FetchDone(name, outcome)
    \/ GatherChannels
    \/ \E t \in 1..Len(channel_tasks) : Acquire(t)
    \/ \E t \in 1..Len(channel_tasks), outcome \in CommentOutcomes :
         \E j \in 1..Len(channel_tasks[t].fetches) : CommentFetchDone(t, j, outcome)
    \/ \E t \in 1..Len(channel_tasks) : CommentsStart(t)
    \/ \E t \in 1..Len(channel_tasks) : BatchGathered(t)
    \/ Rank

SpecFeedFair == SpecFeed /\ WF_vars(FeedProgress)

(***************************************************************************)
(* Claims about the facade and the post parser (under Spec).               *)
(***************************************************************************)
PostIds(posts) == {posts[i].id : i \in 1..Len(posts)}

\* C1: whatever the channel, the position, the direction and the upstream
\* answer, the document Telegram.more returns holds no post whose id is the
\* position it was called with.
C1_BoundaryExclusion ==
    (last_call.op = "more" /\ last_result.kind = "value")
        => last_call.position \notin PostIds(last_result.value.posts)

\* C1 witness: more() has returned posts for a page that held the pivot.
C1_Witness ==
    /\ last_call.op = "more"
    /\ last_response.kind = "page"
    /\ \E i \in 1..Len(last_response.page.nodes) :
            last_response.page.nodes[i].id = last_call.position
    /\ last_result.kind = "value"
    /\ last_result.value.posts # <<>>

\* C2: a message node whose merged content map is empty is in no list of
\* posts the parser returns: every post of a body() result has at least one
\* content field, and the result has as many posts as the page has message
\* nodes with content.
C2_DropEmptyPost ==
    (last_call.op = "body" /\ last_result.kind = "value")
        => LET posts == last_result.value.content.posts
               nodes == last_response.page.nodes
           IN  /\ \A i \in 1..Len(posts) : DOMAIN posts[i].content # {}
               /\ Len(posts) =
                    Cardinality({i \in 1..Len(nodes) :
                        \E k \in ContentKeys : FieldFound(nodes[i], k)})

(***************************************************************************)
(* Claims about the feed (under SpecFeed and SpecFeedFair).                *)
(***************************************************************************)
FeedDone == feed_pc = "done"

\* the documents the body fetches of the request returned
FetchedDocs ==
    {fetch_results[n].value :
        n \in {m \in DOMAIN fetch_results : fetch_results[m].kind = "value"}}

DocPairs(doc) ==
    {<<doc.channel.username, doc.content.posts[i].id>> : i \in 1..Len(doc.content.posts)}

FetchedPairs == UNION {DocPairs(doc) : doc \in FetchedDocs}

ResultPairs ==
    {<<feed_result[i].channel.username, feed_result[i].id>> : i \in 1..Len(feed_result)}

\* C3: the feed result holds exactly one entry for each (channel username,
\* post id) pair of the fetched documents, and no two entries with one pair,
\* also when a channel is listed twice or under two spellings.
C3_DedupKey ==
    FeedDone =>
        /\ ResultPairs = FetchedPairs
        /\ \A i, j \in 1..Len(feed_result) :
                (feed_result[i].channel.username = feed_result[j].channel.username
                    /\ feed_result[i].id = feed_result[j].id) => i = j

\* C3 witness: a channel listed under two spellings; both were fetched, each
\* post was scored twice and the result holds it once.
C3_Witness ==
    /\ FeedDone
    /\ usernames = <<NameAbcd, NameAbcdUpper>>
    /\ \A n \in DOMAIN fetch_results : fetch_results[n].kind = "value"
    /\ Len(all_posts) = 4
    /\ Len(feed_result) = 2

\* whether a fetch of the channel failed, and whether one returned a document
FailedKind(r) == r.kind \in {"timeout", "raised"}
ChannelFetched(key) ==
    \E n \in DOMAIN fetch_results : Lower(n) = key /\ fetch_results[n].kind = "value"
ChannelFailed(key) ==
    /\ \E n \in DOMAIN fetch_results : Lower(n) = key /\ FailedKind(fetch_results[n])
    /\ ~ChannelFetched(key)

\* C4: a channel whose body fetch times out or raises contributes no post
\* and no error to the feed, and every post of every channel that was fetched
\* is in the result.
C4_FailedChannelSkipped ==
    FeedDone =>
        /\ \A key \in DOMAIN served :
                ChannelFailed(key) =>
                    \A i \in 1..Len(feed_result) :
                        feed_result[i].channel.username # HeaderFor(key).username
        /\ \A key \in DOMAIN served :
                ChannelFetched(key) =>
                    \A i \in 1..Len(served[key].nodes) :
                        <<HeaderFor(key).username, served[key].nodes[i].id>> \in ResultPairs

\* C4 witness: of two channels the first timed out and the second returned
\* its two posts, and the result is these two posts.
C4_Witness ==
    /\ FeedDone
    /\ usernames = <<NameAbcd, NameWxyz>>
    /\ fetch_results[NameAbcd] = TimedOut
    /\ fetch_results[NameWxyz].kind = "value"
    /\ Len(feed_result) = 2
    /\ \A i \in 1..2 : feed_result[i].channel.username = HeaderFor(NameWxyz).username

\* C5: the aggregation always completes: under fair scheduling every request
\* that started is answered, and when every channel fetch timed out the
\* returned list is empty.
C5_AlwaysCompletes ==
    /\ (feed_pc = "fetching") ~> FeedDone
    /\ []((FeedDone /\ \A n \in DOMAIN fetch_results : fetch_results[n] = TimedOut)
            => feed_result = <<>>)

\* C5 witness: a request of two channels is answered after both fetches
\* timed out.
C5_Witness ==
    /\ FeedDone
    /\ Len(fetch_tasks) = 2
    /\ \A n \in DOMAIN fetch_results : fetch_results[n] = TimedOut
    /\ feed_result = <<>>

ScoresDistinct ==
    \A i, j \in 1..Len(all_posts) : i # j => all_posts[i]._score # all_posts[j]._score

\* the scored posts that no post of the same key outscores
BestPerKey ==
    {p \in Range(all_posts) :
        \A q \in Range(all_posts) : PostKey(q) = PostKey(p) => q._score <= p._score}

\* C6: the result is ordered by _score, non-increasing; when all scores are
\* distinct it is the strictly decreasing sequence of the best post of each
\* key, which is one sequence whatever the order of the list of channels and
\* of the completion of the fetches.
C6_OrderedByScore ==
    FeedDone =>
        /\ \A i, j \in 1..Len(feed_result) :
                i < j => feed_result[i]._score >= feed_result[j]._score
        /\ ScoresDistinct =>
                /\ \A i, j \in 1..Len(feed_result) :
                        i < j => feed_result[i]._score > feed_result[j]._score
                /\ Range(feed_result) = BestPerKey

\* C6 witness: posts of two channels with distinct scores were ranked, and a
\* post of the channel listed last comes first.
C6_Witness ==
    /\ FeedDone
    /\ ScoresDistinct
    /\ Len(feed_result) >= 3
    /\ feed_result[1].channel.username = HeaderFor(Lower(usernames[Len(usernames)])).username
    /\ feed_result[1].channel.username # HeaderFor(Lower(usernames[1])).username

\* C7: of the candidates that share one (channel username, post id) key, the
\* one deduplication keeps has a _score at least that of each discarded one.
C7_DedupKeepsBest ==
    FeedDone =>
        \A i \in 1..Len(feed_result) : \A k \in 1..Len(all_posts) :
            PostKey(all_posts[k]) = PostKey(feed_result[i])
                => feed_result[i]._score >= all_posts[k]._score

\* C7 witness: two candidates of one key with different scores, the one made
\* later being the better.
C7_Witness ==
    /\ FeedDone
    /\ \E k, l \in 1..Len(all_posts) :
            /\ k < l
            /\ PostKey(all_posts[k]) = PostKey(all_posts[l])
            /\ all_posts[k]._score < all_posts[l]._score

\* whether the comment fetch of the task for the post id failed or timed out
CommentFetchFailed(task, id) ==
    \E j \in 1..Len(task.remaining) :
        task.remaining[j] = id /\ task.fetches[j].kind \in {"failed", "timeout"}

\* C8: a comment fetch that fails or times out removes no post and fails no
\* channel: every post of a channel task's document is in the result, and a
\* post whose comment fetch failed is scored with comments = 0.
C8_CommentFailureTolerated ==
    FeedDone =>
        \A t \in 1..Len(channel_tasks) :
            LET task == channel_tasks[t]
                posts == task.doc.content.posts
            IN  /\ Len(task.final_posts) = Len(posts)
                /\ \A i \in 1..Len(posts) :
                        /\ <<task.doc.channel.username, posts[i].id>> \in ResultPairs
                        /\ CommentFetchFailed(task, posts[i].id) =>
                                task.final_posts[i] =
                                    final_post(posts[i], task.doc.channel, 0)

\* C8 witness: a channel with one comment fetch that timed out and one that
\* returned a count that changes the score; both posts are in the result.
C8_Witness ==
    /\ FeedDone
    /\ \E t \in 1..Len(channel_tasks) :
            LET task == channel_tasks[t]
            IN  /\ Len(task.fetches) = 2
                /\ task.fetches[1] = TimedOut
                /\ task.fetches[2] = [kind |-> "count", n |-> 1]
                /\ task.final_posts[2]
                        # final_post(task.doc.content.posts[2], task.doc.channel, 0)
                /\ Len(feed_result) >= 2

(***************************************************************************)
(* Claims about preview and its cache (under SpecPreview).                 *)
(***************************************************************************)
PreviewEnded(task) == task.pc \in {"returned", "raised"}

\* C9 (as stated): when the cache holds a non-empty entry under the key of
\* the channel, preview returns the decoded entry and performs no upstream
\* fetch and no cache write.
C9_HeldEntryReturned ==
    \A t \in 1..Len(preview_tasks) :
        LET task == preview_tasks[t]
        IN  (PreviewEnded(task) /\ task.held # NoEntry)
                => /\ task.result = Value(json_loads(task.held))
                   /\ ~task.fetched
                   /\ ~task.wrote

\* C9 (amended): when the cache read of preview returns a non-empty entry,
\* preview returns the value that entry decodes to, a value whose JSON text
\* is the entry, and performs no upstream fetch and no cache write.
C9_CacheHitReturned ==
    \A t \in 1..Len(preview_tasks) :
        LET task == preview_tasks[t]
        IN  task.cached_data # NoEntry
                => /\ task.pc = "returned"
                   /\ task.result = Value(json_loads(task.cached_data))
                   /\ json_dumps(task.result.value) = task.cached_data
                   /\ ~task.fetched
                   /\ ~task.wrote

\* C9 witness: a preview has returned the channel card it read from the
\* cache.
C9_Witness ==
    \E t \in 1..Len(preview_tasks) :
        LET task == preview_tasks[t]
        IN  /\ task.pc = "returned"
            /\ task.cached_data # NoEntry
            /\ task.result.kind = "value"
            /\ task.result.value.py = "dict"
            /\ ~task.fetched

\* what preview returns for the answer of the fetch when no cache is involved
FetchedPreview(answer) ==
    IF answer.kind = "none" THEN Empty ELSE Value(Preview_get(answer.page))

\* C10: a cache failure never fails preview: when the client cannot be
\* created, or the read or the write raises, preview still returns what
\* fetching and parsing the page gives, and only a failure of the fetch or
\* of the parser reaches the caller.
C10_CacheFailureTolerated ==
    \A t \in 1..Len(preview_tasks) :
        LET task == preview_tasks[t]
        IN  (PreviewEnded(task) /\ task.failures # NoFailures)
                => /\ task.fetched
                   /\ IF task.answer.kind \in {"error", "malformed"}
                      THEN task.pc = "raised"
                      ELSE /\ task.pc = "returned"
                           /\ task.result = FetchedPreview(task.answer)

\* the index of the first occurrence of x in seq
FirstIndex(seq, x) == CHOOSE i \in 1..Len(seq) : seq[i] = x /\ \A j \in 1..(i - 1) : seq[j] # x

PreviewsReturned ==
    preview_pc = "done" /\ preview_call.op = "previews" /\ preview_result.kind = "value"

\* C11: the map previews returns has exactly the distinct requested channels
\* as keys, in the order of their first occurrence in the request, and each
\* key maps to what preview() returned for that channel, whatever the order
\* the concurrent preview calls completed in.
C11_PreviewsZip ==
    PreviewsReturned =>
        LET m == preview_result.value
            channels == preview_call.channels
        IN  /\ {m[i].channel : i \in 1..Len(m)} = Range(channels)
            /\ \A i, j \in 1..Len(m) :
                    i < j => FirstIndex(channels, m[i].channel)
                                < FirstIndex(channels, m[j].channel)
            /\ \A i \in 1..Len(m) :
                    \E t \in 1..Len(preview_tasks) :
                        /\ preview_tasks[t].channel = m[i].channel
                        /\ preview_tasks[t].pc = "returned"
                        /\ preview_tasks[t].result = m[i].preview

\* a request that repeats a channel, whose second preview completed first
\* and returned something else than the first
C11_Witness ==
    /\ PreviewsReturned
    /\ preview_call.channels = <<NameAbcd, NameWxyz, NameAbcd>>
    /\ Len(preview_result.value) = 2
    /\ preview_tasks[2].order = 1
    /\ preview_tasks[1].order = 2
    /\ preview_result.value[1].preview # preview_result.value[2].preview

(***************************************************************************)
(* Claims about post, the not-found path and the validation (under Spec).  *)
(***************************************************************************)
\* C12: post(channel, id) on a page the parser reads returns the empty map
\* when no message of the page has that id; otherwise with only_post it
\* returns one post whose id is the requested id, and without only_post the
\* full body whose post list is not empty and holds only posts of that id.
C12_PostSelectsId ==
    (last_call.op = "post" /\ last_response.kind = "page") =>
        LET nodes == last_response.page.nodes
            found == \E i \in 1..Len(nodes) : nodes[i].id = last_call.position
        IN  IF ~found THEN last_result = Empty
            ELSE /\ last_result.kind = "value"
                 /\ IF last_call.only_post
                    THEN last_result.value.id = last_call.position
                    ELSE /\ last_result.value.channel = last_response.page.channel
                         /\ last_result.value.content.posts # <<>>
                         /\ \A i \in 1..Len(last_result.value.content.posts) :
                                last_result.value.content.posts[i].id = last_call.position

\* a single post asked from a page whose first message is another one
C12_Witness ==
    /\ last_call.op = "post"
    /\ last_call.only_post
    /\ last_response.kind = "page"
    /\ Len(last_response.page.nodes) >= 2
    /\ last_response.page.nodes[1].id # last_call.position
    /\ last_result.kind = "value"
    /\ last_result.value.id = last_call.position

\* a facade call of body, more or post whose upstream fetch returned None
FacadeFetchNone ==
    last_call.op \in {"body", "more", "post"} /\ last_response = RespNone

\* a preview call that has returned to its route and whose fetch returned None
PreviewFetchNone ==
    /\ preview_pc = "done"
    /\ preview_call.op = "preview"
    /\ preview_tasks[1].fetched
    /\ preview_tasks[1].answer = RespNone

NoFetchForInvalidName ==
    (last_call # NoCall /\ last_call.sent) => CHANNEL_REGEX(last_call.channel)

\* C14: the endpoints of body, more, post and preview invoke no core method
\* and send no upstream request for a channel name that does not match
\* ^[A-Za-z][A-Za-z0-9_]{3,31}$.
C14_InvalidNameRefused ==
    /\ last_call # NoCall => CHANNEL_REGEX(last_call.channel)
    /\ \A t \in 1..Len(preview_tasks) :
            preview_call.op = "preview" => CHANNEL_REGEX(preview_tasks[t].channel)
    /\ NoFetchForInvalidName

\* C15: valid_position(p) is true exactly for 0 <= p <= 10,000,000, so body
\* and post send the upstream request for every post id from 1 to
\* 10,000,000 of a channel Request accepts, and refuse only larger ids.
C15_PositionBound ==
    last_call.op \in {"body", "post"} =>
        /\ valid_position(last_call.position)
                <=> (0 <= last_call.position /\ last_call.position <= MAX_POST_ID)
        /\ (valid_channel(last_call.channel) /\ last_call.position >= 1)
                => (last_call.sent <=> last_call.position <= MAX_POST_ID)

(***************************************************************************)
(* Claims about the functions without state (under SpecPure).              *)
(***************************************************************************)
\* a name of 4 to 32 characters, all of them letters, digits or underscore
FeedNameAsSpecified(name) ==
    /\ 4 <= Len(name)
    /\ Len(name) <= 32
    /\ \A i \in 1..Len(name) : name[i] \in Letters \cup Digits \cup {"_"}

\* C16: the feed request is accepted if and only if it lists 1 to 100
\* channels and every name is 4 to 32 characters long and made of letters,
\* digits and underscore only.
C16_FeedRequestAccepted ==
    pure_call.fn = "validate_channels" =>
        (pure_call.result.accepted
            <=> /\ 1 <= Len(pure_call.v)
                /\ Len(pure_call.v) <= 100
                /\ \A i \in 1..Len(pure_call.v) : FeedNameAsSpecified(pure_call.v[i]))

\* the string s without its last character
ButLast(s) == SubSeq(s, 1, Len(s) - 1)

\* C17: parse_numeric_value never raises; with spaces removed and in lower
\* case, plain digits give their integer, a number with a 'k' suffix the
\* number times 1,000, with an 'm' suffix times 1,000,000, and anything else
\* the default of the caller.
C17_NumericParse ==
    pure_call.fn = "parse_numeric_value" =>
        LET cleaned == Lower(RemoveChar(pure_call.value_str, " "))
            suffix == IF cleaned = <<>> THEN "" ELSE cleaned[Len(cleaned)]
        IN  /\ pure_call.result # Raised
            /\ pure_call.result =
                 Value(IF IsDigits(cleaned) THEN DigitsToInt(cleaned)
                       ELSE IF suffix = "k" /\ IsFloat(ButLast(cleaned))
                            THEN FloatTimes(ButLast(cleaned), 1000)
                       ELSE IF suffix = "m" /\ IsFloat(ButLast(cleaned))
                            THEN FloatTimes(ButLast(cleaned), 1000000)
                       ELSE pure_call.default)

\* the part of C17 about exceptions alone
NumericParseNeverRaises ==
    pure_call.fn = "parse_numeric_value" => pure_call.result # Raised

\* the video player elements of a media group, in document order
VideosOf(media) ==
    SeqFilterIdx(media, {i \in 1..Len(media) :
                            media[i].class = "tgme_widget_message_video_player"}, 1)

\* the items of a result that are no images
NonImages(items) ==
    SeqFilterIdx(items, {i \in 1..Len(items) : PyGet(items[i], "type") # PyStr("image")}, 1)

covered_text(html, match) == text_only(group(html, match))

\* C19: every entity that parse_message returns has an offset and a length
\* that cut out of the plain text (the html without its tags) exactly the
\* text the entity covers, for nested and overlapping tags and for repeated
\* substrings as well.
C19_RoundTrip ==
    pure_call.fn = "parse_message" =>
        LET html == html_text(pure_call.html_body)
            text == text_only(html)
        IN  \A i \in 1..Len(pure_call.result) :
                LET entity == pure_call.result[i]
                IN  /\ entity.offset >= 0
                    /\ SubSeq(text, entity.offset + 1, entity.offset + entity.length)
                         = covered_text(html, pure_call.matches[i])

\* the url('...') of the emoji tag of a match of emoji or animoji
source_url(html, match) ==
    IF html[match.first].kind = "emoji" THEN html[match.first].url
    ELSE html[match.first + 1].url

\* C20: an entity of type text_link, url, emoji or animoji has a url, and
\* the url of an emoji or animoji is "https:" followed by the
\* protocol-relative url of its source.
C20_UrlCarried ==
    pure_call.fn = "parse_message" =>
        \A i \in 1..Len(pure_call.result) :
            LET entity == pure_call.result[i]
            IN  entity.type \in {"text_link", "url", "emoji", "animoji"} =>
                    /\ "url" \in DOMAIN entity
                    /\ entity.type \in {"emoji", "animoji"} =>
                         entity.url = HttpsScheme \o
                            source_url(html_text(pure_call.html_body), pure_call.matches[i])

\* C21: clean_json_of_post is idempotent: cleaning a cleaned document again,
\* with the same media_meta, gives the same document.
C21_CleanIdempotent ==
    pure_call.fn = "clean_json_of_post" =>
        clean_json_of_post(pure_call.result, pure_call.media_meta) = pure_call.result

\* the part of C21 for media_meta = False
CleanIdempotentWithoutMeta ==
    (pure_call.fn = "clean_json_of_post" /\ ~pure_call.media_meta) =>
        clean_json_of_post(pure_call.result, FALSE) = pure_call.result

\* the number of media items of one type in a message node
MediaCount(node, type) == Cardinality({i \in 1..Len(node.media) : node.media[i] = type})

\* C22: the content signature of a post counts its content by kind: photos
\* is the number of its images, videos of its videos, gifs of its gifs, poll
\* is 1 when the post has a poll and 0 otherwise, and text is its text.
C22_ContentSignature ==
    pure_call.fn = "parse_content_type_single" =>
        /\ pure_call.result.photos = MediaCount(pure_call.node, "image")
        /\ pure_call.result.videos = MediaCount(pure_call.node, "video")
        /\ pure_call.result.gifs = MediaCount(pure_call.node, "gif")
        /\ pure_call.result.poll = (IF pure_call.node.poll THEN 1 ELSE 0)
        /\ pure_call.result.text = pure_call.node.text.string

\* C23: a message node of unexpected shape (a poll without a voters element,
\* a bubble without a time element) does not fail the parsing: Post.get
\* returns, and its result holds every selected message of expected shape.
C23_AnomalyTolerated ==
    pure_call.fn = "Post.get" =>
        /\ pure_call.result # Raised
        /\ \A i \in 1..Len(pure_call.messages) :
              (/\ check_selector(pure_call.messages[i].node.id, pure_call.selector)
               /\ ~message_raises(pure_call.messages[i]))
              => \E p \in 1..Len(pure_call.result.value) :
                    pure_call.result.value[p].id = pure_call.messages[i].node.id

\* C24: the boundary filter of Telegram.more removes nothing but the pivot:
\* the posts of the result are the posts the parser produced whose id is not
\* the position, in the parser's order, and meta is the parser's meta.
C24_OnlyPivotRemoved ==
    (last_call.op = "more" /\ last_response.kind = "page" /\ last_result.kind = "value") =>
        LET parsed == More_get(last_response.page)
        IN  /\ last_result.value.posts
                 = SelectSeq(parsed.posts, LAMBDA post : post.id # last_call.position)
            /\ last_result.value.meta = parsed.meta

\* C24 witness: more() was called with the id of the first post of a page of
\* several posts, and returned the posts after it.
C24_Witness ==
    /\ last_call.op = "more"
    /\ last_response.kind = "page"
    /\ Len(last_response.page.nodes) >= 2
    /\ last_response.page.nodes[1].id = last_call.position
    /\ last_result.kind = "value"
    /\ Len(last_result.value.posts) = Len(last_response.page.nodes) - 1

(***************************************************************************)
(* Claims about the write-through of preview (under SpecPreview).          *)
(***************************************************************************)
\* the step in which preview number t ends after its cache read returned
\* nothing
MissCompletes(t) ==
    /\ Len(preview_tasks') = Len(preview_tasks)
    /\ preview_tasks[t].pc \in {"fetch", "set"}
    /\ preview_tasks'[t].pc \in {"returned", "raised"}
    /\ preview_tasks[t].cached_data = NoEntry
    /\ "read" \notin preview_tasks[t].failures

\* the entry of the store for the channel of a task is the task's result,
\* written with the task's time to live
EntryOfResult(store, task) ==
    /\ task.channel \in DOMAIN store
    /\ task.result.kind = "value"
    /\ json_loads(store[task.channel].value) = task.result.value
    /\ store[task.channel].ttl = task.cache_ttl

\* C25 as stated: when preview(channel) completes on a cache miss, the cache
\* holds an entry for the channel if and only if the upstream fetch
\* succeeded, the entry decodes to the value preview returned and has the
\* given TTL; when the fetch fails the cache is unchanged and the empty map
\* is returned.
C25_MissWriteThrough ==
    [][\A t \in 1..Len(preview_tasks) :
          MissCompletes(t) =>
             IF preview_tasks'[t].answer.kind \notin {"none", "error"}
             THEN EntryOfResult(redis_store', preview_tasks'[t])
             ELSE /\ redis_store' = redis_store
                  /\ preview_tasks'[t].channel \notin DOMAIN redis_store'
                  /\ preview_tasks'[t].result = Empty]_vars

\* what preview keeps of it: when it returns on a cache miss and the fetch
\* gave a page, it returns the parsed page and, if the cache write did not
\* fail, the cache holds for the channel an entry that decodes to the
\* returned value, written with the given TTL; if the write failed, or the
\* fetch gave no content, the cache is unchanged, and without content the
\* empty map is returned.
MissWriteThroughBestEffort ==
    [][\A t \in 1..Len(preview_tasks) :
          (MissCompletes(t) /\ preview_tasks'[t].pc = "returned") =>
             LET task == preview_tasks'[t]
             IN  IF task.answer.kind = "page"
                 THEN /\ task.result = Value(Preview_get(task.answer.page))
                      /\ IF "write" \notin task.failures
                         THEN EntryOfResult(redis_store', task)
                         ELSE redis_store' = redis_store
                 ELSE /\ redis_store' = redis_store
                      /\ task.result = Empty]_vars

(***************************************************************************)
(* Claims about the channel cache of one preparer (under SpecBatch).       *)
(***************************************************************************)
\* the names whose document the running call fetched
FetchedNow == {Lower(n) : n \in {m \in DOMAIN fetch_results : fetch_results[m].kind = "value"}}

\* C26: fetch_channel_data_batch returns for a channel only a document that
\* was fetched in this call or cached less than the TTL of 60 seconds
\* earlier; an expired entry is never returned, also when its refresh fails.
C26_NoExpiredEntry ==
    feed_pc = "batch_done" =>
        \A n \in DOMAIN BatchResult :
            \/ Lower(n) \in FetchedNow
            \/ now - channel_cache[Lower(n)].timestamp < feed_cache_ttl

(***************************************************************************)
(* Claims about a failing channel inside previews (under SpecPreview).     *)
(***************************************************************************)
\* the fetch of the task returned None or raised
FetchFailed(task) == task.fetched /\ task.answer.kind \in {"none", "error"}

\* C27: in previews(channels) the failure of one channel's fetch (it
\* returns None or raises) does not fail the batch: with a working cache,
\* the call returns a map with the safe default {} for the failed channel
\* and the preview that preview() returned for every other channel.
C27_PreviewsFailureTolerated ==
    (/\ preview_pc = "done"
     /\ preview_call.op = "previews"
     /\ \A t \in 1..Len(preview_tasks) :
            /\ preview_tasks[t].failures = NoFailures
            /\ preview_tasks[t].pc = "raised" => FetchFailed(preview_tasks[t]))
        => /\ preview_result.kind = "value"
           /\ \A t \in 1..Len(preview_tasks) :
                /\ preview_tasks[t].pc = "returned"
                /\ preview_result.value[t].channel = preview_tasks[t].channel
                /\ preview_result.value[t].preview =
                        IF FetchFailed(preview_tasks[t]) THEN Empty
                        ELSE preview_tasks[t].result

\* in previews(channels) a fetch that returns None does not fail the batch
PreviewsFetchNoneTolerated ==
    (/\ preview_pc = "done"
     /\ preview_call.op = "previews"
     /\ \A t \in 1..Len(preview_tasks) : preview_tasks[t].pc # "raised")
        => /\ preview_result.kind = "value"
           /\ \A t \in 1..Len(preview_tasks) :
                preview_result.value[t].preview =
                    IF FetchFailed(preview_tasks[t]) THEN Empty
                    ELSE preview_tasks[t].result

InFlight(t) ==
    IF channel_tasks[t].pc # "batch" THEN {}
    ELSE {j \in 1..Len(channel_tasks[t].fetches) : channel_tasks[t].fetches[j] = Pending}

RECURSIVE ChannelInFlight(_, _)
\* the number of comment fetches in flight for the channel key, over the
\* channel tasks t..
ChannelInFlight(key, t) ==
    IF t > Len(channel_tasks) THEN 0
    ELSE (IF Lower(channel_tasks[t].username) = key THEN Cardinality(InFlight(t)) ELSE 0)
            + ChannelInFlight(key, t + 1)

\* the channel tasks that hold the semaphore
InCommentPhase == {t \in 1..Len(channel_tasks) : channel_tasks[t].pc \in {"comments_created", "batch"}}

\* each channel task has at most BATCH_SIZE fetches in flight, all of them
\* of its current batch, with every earlier batch finished and no later one
\* started
CommentBatchesPerTask ==
    \A t \in 1..Len(channel_tasks) :
        channel_tasks[t].pc = "batch" =>
            /\ Cardinality(InFlight(t)) <= BATCH_SIZE
            /\ InFlight(t) \subseteq BatchIndexes(channel_tasks[t].remaining, channel_tasks[t].batch)
            /\ \A j \in 1..Len(channel_tasks[t].fetches) :
                /\ j <= channel_tasks[t].batch =>
                        channel_tasks[t].fetches[j] \notin {Pending, NotStarted}
                /\ j > channel_tasks[t].batch + BATCH_SIZE =>
                        channel_tasks[t].fetches[j] = NotStarted

\* C29: at most 20 comment fetches of one channel are in flight at any time,
\* a batch starting only after the previous one has finished, and at most
\* max_concurrent channels are in the comment phase at once.
C29_CommentBatches ==
    /\ CommentBatchesPerTask
    /\ \A t \in 1..Len(channel_tasks) :
            ChannelInFlight(Lower(channel_tasks[t].username), 1) <= BATCH_SIZE
    /\ Cardinality(InCommentPhase) <= max_concurrent
    /\ semaphore = Cardinality(InCommentPhase)

\* the duration of a media item as the text of its duration element asks
\* for: formatted and raw seconds for MM:SS and HH:MM:SS, None for any other
\* text
stated_duration(text) ==
    LET parts == split(text, ":")
        numeric == \A i \in 1..Len(parts) : IsDigits(parts[i])
    IN  IF numeric /\ Len(parts) = 2
        THEN PyDict(<<"formatted", "raw">>,
                    <<PyStr(text), PyInt(60 * DigitsToInt(parts[1]) + DigitsToInt(parts[2]))>>)
        ELSE IF numeric /\ Len(parts) = 3
        THEN PyDict(<<"formatted", "raw">>,
                    <<PyStr(text), PyInt(3600 * DigitsToInt(parts[1])
                                            + 60 * DigitsToInt(parts[2])
                                            + DigitsToInt(parts[3]))>>)
        ELSE PyNone

\* C30: duration parsing never raises; MM:SS gives raw = 60*MM + SS,
\* HH:MM:SS gives raw = 3600*HH + 60*MM + SS, and for malformed text the
\* duration of the media item is None, never a duration without raw value.
C30_DurationParsed ==
    (pure_call.fn = "extract_media" /\ Len(pure_call.result) = Len(pure_call.media)) =>
        \A i \in 1..Len(pure_call.media) :
            LET element == pure_call.media[i]
            IN  (/\ element.class = "tgme_widget_message_video_player"
                 /\ element.duration.present)
                    => PyGet(pure_call.result[i], "duration")
                            = stated_duration(element.duration.text)

\* text of the form MM:SS or HH:MM:SS gives the stated seconds
WellFormedDurationParsed ==
    (pure_call.fn = "extract_media" /\ Len(pure_call.result) = Len(pure_call.media)) =>
        \A i \in 1..Len(pure_call.media) :
            LET element == pure_call.media[i]
            IN  (/\ element.class = "tgme_widget_message_video_player"
                 /\ element.duration.present
                 /\ stated_duration(element.duration.text) # PyNone)
                    => PyGet(pure_call.result[i], "duration")
                            = stated_duration(element.duration.text)

====
